---- MODULE Spec2Model ----
(***************************************************************************)
(* kstack: generation of Kubernetes manifests from a compose-like model    *)
(* (generators/*.py) and their reconciliation against a cluster            *)
(* (core/resource_manager.py).                                             *)
(*                                                                         *)
(* Python values are represented as follows.                               *)
(*  - An ordered dict is a sequence: of records carrying a `name` field    *)
(*    (apps, sidecars, configs, volumes) or of <<key, value>> pairs (the   *)
(*    resource bundle, the items of an expose mapping).                    *)
(*  - A port string is the sequence of its ':'-separated segments; a       *)
(*    segment records whether int() accepts its text before any '/', the   *)
(*    value it then has, and whether a '/proto' suffix follows.            *)
(*  - A URL string is the record of the parts urlparse returns.            *)
(*  - A raised exception is the `raised` field of a result.                *)
(***************************************************************************)
EXTENDS Integers, Sequences, FiniteSets, TLC

VARIABLES
    model,      \* the parsed ComposeModel handed to KubeResourceGenerator
    bundle,     \* what generate_all returned: [raised, resources]
    svcResult,  \* what a direct ServiceGenerator.generate call returned
    depResult,  \* what a direct DeploymentGenerator.generate call returned
    volResult,  \* what a direct VolumeGenerator.generate_volumes call returned
    regenerated,\* what a second generate_all call on the same object returned
    valResult,  \* what a direct _validate_external_resources call did
    parseResult,\* what ComposeParser.parse did
    parsing,    \* the parse() call that is waiting on the cluster, if any
    resources,  \* the bundle passed to apply_resources / delete_resources
    cluster,    \* the cluster: set of <<resource_type, name>> that exist
    pc,         \* "new", "crashed", "idle", "apply", "delete"
    op,         \* the current/last operation: "none", "apply", "delete"
    k,          \* position in the kind iteration of the running operation
    i,          \* position in the manifest list of that kind
    phase,      \* the cluster call the running apply is about to make
    calls,      \* the cluster calls issued by the current/last operation
    status,     \* outcome of the current/last operation
    err,        \* the wrapped exception the last operation raised
    cluster0,   \* the cluster as it was when the current operation started
    meddled,    \* another actor changed the cluster during the operation
    runs,       \* operations started so far
    externals   \* external deletions so far

vars == <<model, bundle, svcResult, depResult, valResult, parseResult, resources, cluster, pc, op, k, i, phase,
          calls, status, err, cluster0, meddled, runs, externals,
          volResult, regenerated, parsing>>

(***************************************************************************)
(* Bounds of the model.                                                    *)
(***************************************************************************)
MaxPorts == 2
MaxExpose == 2
MaxRuns == 2
MaxExternal == 1
MaxVolumes == 2
MaxRefs == 2

None == [none |-> TRUE]

(***************************************************************************)
(* Generic helpers.                                                        *)
(***************************************************************************)
RECURSIVE SeqsUpTo(_, _)
SeqsUpTo(S, n) ==
    IF n = 0 THEN {<<>>}
    ELSE LET shorter == SeqsUpTo(S, n - 1)
         IN  shorter \cup {Append(s, e) : s \in {t \in shorter : Len(t) = n - 1}, e \in S}

RECURSIVE Flatten(_)
Flatten(ss) == IF ss = <<>> THEN <<>> ELSE Head(ss) \o Flatten(Tail(ss))

(***************************************************************************)
(* base_generator.py                                                       *)
(***************************************************************************)
Seg(n) == [digits |-> TRUE, val |-> n, suffix |-> FALSE]
SegProto(n) == [digits |-> TRUE, val |-> n, suffix |-> TRUE]
SegText == [digits |-> FALSE, val |-> 0, suffix |-> FALSE]

PortStr(segs) == [t |-> "str", segs |-> segs]
PortDict(hasPub, pub, hasTgt, tgt, hasProto, proto) ==
    [t |-> "dict", hasPublished |-> hasPub, published |-> pub,
     hasTarget |-> hasTgt, target |-> tgt,
     hasProtocol |-> hasProto, protocol |-> proto]
PortOther == [t |-> "other"]

\* str.upper() on the protocol names in use
Upper(s) == CASE s = "tcp" -> "TCP" [] s = "udp" -> "UDP" [] OTHER -> s

\* int(text): defined iff the text is all digits
IntOk(seg, stripped) == seg.digits /\ (stripped \/ ~seg.suffix)

\* one iteration of the loop of _convert_service_ports: the entries appended
convert_service_port(port) ==
    IF port.t = "str"
    THEN IF /\ Len(port.segs) >= 2
            /\ IntOk(port.segs[1], FALSE)
            /\ IntOk(port.segs[2], TRUE)
         THEN <<[name |-> "port-" \o ToString(port.segs[1].val),
                 port |-> port.segs[1].val,
                 targetPort |-> port.segs[2].val,
                 protocol |-> "TCP"]>>
         ELSE <<>>
    ELSE IF port.t = "dict"
    THEN LET published_port == IF port.hasPublished THEN port.published ELSE 80
         IN  <<[name |-> "port-" \o ToString(published_port),
                port |-> published_port,
                targetPort |-> IF port.hasTarget THEN port.target ELSE 80,
                protocol |-> Upper(IF port.hasProtocol THEN port.protocol ELSE "tcp")]>>
    ELSE <<>>

convert_service_ports(ports) ==
    Flatten([j \in 1..Len(ports) |-> convert_service_port(ports[j])])

(***************************************************************************)
(* service_generator.py                                                    *)
(***************************************************************************)
needs_service(config) == config.ports # <<>> \/ config.expose # <<>>

\* _is_external_port; an entry that is neither a string nor a mapping has no
\* .get and the call raises
is_external_port(port) ==
    IF port.t = "str" THEN IF Len(port.segs) >= 2 THEN "true" ELSE "false"
    ELSE IF port.t = "dict"
    THEN IF port.hasPublished /\ port.published # 0 THEN "true" ELSE "false"
    ELSE "raise"

\* any(self._is_external_port(p) for p in ports): stops at the first true
RECURSIVE any_external_port(_)
any_external_port(ports) ==
    IF ports = <<>> THEN "false"
    ELSE LET r == is_external_port(Head(ports))
         IN  IF r = "false" THEN any_external_port(Tail(ports)) ELSE r

ServiceManifest(name, app, component, type, ports) ==
    [kind |-> "Service", name |-> name,
     labels |-> [app |-> app, component |-> component],
     type |-> type, ports |-> ports,
     selector |-> [app |-> app, component |-> component]]

\* variant of NamedPort: the converted port keeps its own name
NamedPort_keep(pname, port) ==
    [name |-> port.name, port |-> port.port, targetPort |-> port.targetPort,
     protocol |-> port.protocol]

\* a port of a Service manifest: the converted port under the given name
NamedPort(pname, port) ==
    [name |-> pname, port |-> port.port, targetPort |-> port.targetPort,
     protocol |-> port.protocol]

generate_sidecar_services(app_name, sidecar_name, config) ==
    LET service_name == app_name \o "-" \o sidecar_name
        ports == convert_service_ports(config.ports)
        component == "sidecar-" \o sidecar_name
        external == any_external_port(config.ports)
    IN  IF config.ports = <<>> THEN [raised |-> FALSE, services |-> <<>>]
        ELSE IF external = "raise" THEN [raised |-> TRUE, services |-> <<>>]
        ELSE [raised |-> FALSE,
              services |->
                <<ServiceManifest(service_name, app_name, component, "ClusterIP",
                    [j \in 1..Len(ports) |->
                        NamedPort("port-" \o ToString(j - 1), ports[j])])>>
                \o (IF external = "true"
                    THEN <<ServiceManifest(service_name \o "-lb", app_name, component,
                            "LoadBalancer",
                            [j \in 1..Len(ports) |->
                                NamedPort("lb-port-" \o ToString(j - 1), ports[j])])>>
                    ELSE <<>>)]

\* the sidecar loop of generate (lines 56-60)
sidecar_services(name, config) ==
    [j \in 1..Len(config.sidecars) |->
        IF needs_service(config.sidecars[j])
        THEN generate_sidecar_services(name, config.sidecars[j].name, config.sidecars[j])
        ELSE [raised |-> FALSE, services |-> <<>>]]

\* ServiceGenerator.generate; list indexing past the end raises IndexError
ServiceGenerator_generate(name, config) ==
    LET converted == convert_service_ports(config.ports)
        hasDefault == config.ports # <<>>
        hasLb == config.ports # <<>> /\ Len(config.ports) > 1
        hasIngress == config.expose # <<>>
        side == sidecar_services(name, config)
        raised == \/ hasDefault /\ Len(converted) < 1
                  \/ \E j \in 1..Len(side) : side[j].raised
                  \/ hasLb /\ Len(converted) < 2
    IN  IF raised THEN [raised |-> TRUE, services |-> <<>>]
        ELSE [raised |-> FALSE,
              services |->
                (IF hasDefault
                 THEN <<ServiceManifest(name, name, "main", "ClusterIP",
                          <<NamedPort("default", converted[1])>>)>>
                 ELSE <<>>)
                \o Flatten([j \in 1..Len(side) |-> side[j].services])
                \o (IF hasLb
                    THEN <<ServiceManifest(name \o "-lb", name, "main", "LoadBalancer",
                             <<NamedPort("lb-https", converted[2])>>)>>
                    ELSE <<>>)
                \o (IF hasIngress
                    THEN <<ServiceManifest(name \o "-ingress", name, "main", "ClusterIP",
                             <<[name |-> "ingress-http", port |-> 80,
                                targetPort |-> 80, protocol |-> "TCP"]>>)>>
                    ELSE <<>>)]

(***************************************************************************)
(* ingress_generator.py                                                    *)
(***************************************************************************)
ExposeUrl(scheme, host, hasPort, path) ==
    [t |-> "str", scheme |-> scheme, host |-> host, hasPort |-> hasPort, path |-> path]
\* one item of an expose mapping whose value is itself a mapping
Settings(domain, colon, hasPort, port, hasPath, path, hasClass, cls) ==
    [domain |-> domain, colon |-> colon, isDict |-> TRUE,
     hasPort |-> hasPort, port |-> port, hasPath |-> hasPath, path |-> path,
     hasClass |-> hasClass, cls |-> cls]
\* one item of an expose mapping whose value is not a mapping
Scalar(domain) == [domain |-> domain, colon |-> FALSE, isDict |-> FALSE]
ExposeMap(items) == [t |-> "dict", items |-> items]
ExposeOther == [t |-> "other"]

\* the locals of IngressGenerator.generate before its loop (lines 14-15);
\* host, path and service_port are unbound until an entry assigns them
IngressLocals0 ==
    [rules |-> <<>>, ingress_class_name |-> "traefik", bound |-> FALSE,
     host |-> "", path |-> "", service_port |-> 0]

\* variant of expose_item: the first class named is kept
expose_item_first(st, it) ==
    IF ~it.isDict THEN st
    ELSE [st EXCEPT !.bound = TRUE,
                    !.host = it.domain,
                    !.path = IF it.hasPath THEN it.path ELSE "/",
                    !.service_port = IF it.hasPort THEN it.port ELSE 80,
                    !.ingress_class_name =
                        IF it.hasClass /\ @ = "traefik" THEN it.cls ELSE @]

\* one iteration of the loop over the items of a mapping entry (lines 39-48)
expose_item(st, it) ==
    IF ~it.isDict THEN st
    ELSE [st EXCEPT !.bound = TRUE,
                    !.host = it.domain,
                    !.path = IF it.hasPath THEN it.path ELSE "/",
                    !.service_port = IF it.hasPort THEN it.port ELSE 80,
                    !.ingress_class_name = IF it.hasClass THEN it.cls ELSE @]

\* the inner loop over the items of one mapping entry (line 38)
RECURSIVE expose_items(_, _)
expose_items(st, items) ==
    IF items = <<>> THEN st
    ELSE expose_items(expose_item(st, Head(items)), Tail(items))

\* rules.append(...) (lines 52-68); reading an unbound local raises and the
\* entry is skipped by the except clause (lines 69-70)
append_rule(st, name) ==
    IF ~st.bound THEN st
    ELSE [st EXCEPT !.rules = Append(@,
            [host |-> st.host, path |-> st.path, pathType |-> "Prefix",
             service |-> name, number |-> st.service_port])]

\* one iteration of the loop over config['expose'] (lines 17-70)
expose_entry(st, expose, name) ==
    IF expose.t = "str"
    THEN IF expose.scheme \notin {"http", "https"} THEN st
         ELSE append_rule(
                [st EXCEPT !.bound = TRUE,
                           !.host = expose.host,
                           !.path = IF expose.path = "" THEN "/" ELSE expose.path,
                           !.service_port = IF expose.scheme = "http" THEN 80 ELSE 443],
                name)
    ELSE IF expose.t = "dict"
    THEN IF expose.items = <<>> THEN st
         ELSE append_rule(expose_items(st, expose.items), name)
    ELSE st

RECURSIVE expose_loop(_, _, _)
expose_loop(st, entries, name) ==
    IF entries = <<>> THEN st
    ELSE expose_loop(expose_entry(st, Head(entries), name), Tail(entries), name)

\* variant of IngressGenerator_generate: without the `if not rules` return
IngressGenerator_generate_norules(name, config) ==
    LET st == expose_loop(IngressLocals0, config.expose, name)
    IN  [kind |-> "Ingress", name |-> name, rules |-> st.rules,
         hasIngressClassName |-> st.ingress_class_name # "",
         ingressClassName |-> st.ingress_class_name]

IngressGenerator_generate(name, config) ==
    LET st == expose_loop(IngressLocals0, config.expose, name)
    IN  IF st.rules = <<>> THEN None
        ELSE [kind |-> "Ingress", name |-> name, rules |-> st.rules,
              hasIngressClassName |-> st.ingress_class_name # "",
              ingressClassName |-> st.ingress_class_name]

(***************************************************************************)
(* deployment_generator.py, volume_generator.py                            *)
(***************************************************************************)
\* an entry of the top-level configs: an inline one holds `data`, a mapping
\* written as its sequence of <<key, value>> items; an external one has no
\* such key
ConfigSpec(name, external) ==
    [name |-> name, external |-> external, hasData |-> ~external,
     data |-> IF external THEN <<>> ELSE <<<<"settings", name \o ".conf">>>>]

\* a mapping of the model lists its optional keys in `keys`
Has(config, field) == field \in config.keys
\* config.get(field, [])
Get(config, field) == IF Has(config, field) THEN config[field] ELSE <<>>
\* config[field] = value
With(config, field, value) ==
    [config EXCEPT !.keys = @ \cup {field}, ![field] = value]

\* a volumes entry: a string is the sequence of its ':'-separated parts
VolumeStr(parts) == [t |-> "str", parts |-> parts]
VolumeOther == [t |-> "other"]
\* a volumesFrom entry {config: {name, mountPath}, mountPath}; the outer and
\* the inner mountPath are both optional
VolumesFromConfig(name, hasMountPath, mountPath, hasInner, inner) ==
    [hasConfig |-> TRUE, name |-> name,
     hasMountPath |-> hasMountPath, mountPath |-> mountPath,
     hasInnerMountPath |-> hasInner, innerMountPath |-> inner]
\* a volumesFrom entry without the key 'config'
VolumesFromOther == [hasConfig |-> FALSE]
\* an envFrom entry {config: {name}} or {secret: {name}}
EnvFromConfig(name) == [kind |-> "config", name |-> name]
EnvFromSecret(name) == [kind |-> "secret", name |-> name]

\* str.startswith('/') on the texts in use
StartsWithSlash(text) == text \in {"/host/path", "/container/path", "/srv"}

\* the ConfigMap manifests of DeploymentGenerator.generate (lines 31-43)
inline_configmaps(configs) ==
    Flatten([j \in 1..Len(configs) |->
        IF ~configs[j].external
        THEN <<[kind |-> "ConfigMap", name |-> "config-" \o configs[j].name,
                data |-> IF configs[j].hasData THEN configs[j].data ELSE <<>>]>>
        ELSE <<>>])

\* _convert_env_from (base_generator.py)
convert_env_from(env_from) ==
    Flatten([j \in 1..Len(env_from) |->
        IF env_from[j].kind = "config"
        THEN <<[ref |-> "configMapRef", name |-> env_from[j].name]>>
        ELSE IF env_from[j].kind = "secret"
        THEN <<[ref |-> "secretRef", name |-> env_from[j].name]>>
        ELSE <<>>])

\* _convert_volume_mounts: enumerate() counts from 0
convert_volume_mounts(name, volumes) ==
    Flatten([j \in 1..Len(volumes) |->
        IF volumes[j].t = "str" /\ Len(volumes[j].parts) >= 2
        THEN <<[name |-> "vol-" \o name \o "-" \o ToString(j - 1),
                mountPath |-> volumes[j].parts[2]]>>
        ELSE <<>>])

\* _convert_volumes_from: the mount path is read from the entry itself
convert_volumes_from(volumes_from, app_config) ==
    Flatten([j \in 1..Len(volumes_from) |->
        IF volumes_from[j].hasConfig
        THEN <<[name |-> "config-" \o volumes_from[j].name,
                mountPath |-> IF volumes_from[j].hasMountPath
                              THEN volumes_from[j].mountPath
                              ELSE "/config/" \o volumes_from[j].name]>>
        ELSE <<>>])

\* _create_container; the container is recorded by its name, volumeMounts
\* and envFrom
create_container(name, config, app_config) ==
    [name |-> name,
     volumeMounts |->
        convert_volume_mounts(name, Get(config, "volumes"))
        \o (IF Has(config, "volumesFrom")
            THEN convert_volumes_from(config.volumesFrom, app_config)
            ELSE <<>>),
     hasEnvFrom |-> Has(config, "envFrom"),
     envFrom |-> IF Has(config, "envFrom")
                 THEN convert_env_from(config.envFrom) ELSE <<>>]

inheritable_fields == <<"volumes", "networks", "env_file", "volumesFrom">>

\* variant of merge_field: envFrom is inherited as well
merge_field_envfrom(app_config, merged, field) ==
    LET inherit(c, f) == IF Has(app_config, f) /\ ~Has(c, f)
                         THEN With(c, f, app_config[f]) ELSE c
    IN  IF field = "volumesFrom"
        THEN inherit(inherit(merged, field), "envFrom")
        ELSE inherit(merged, field)

\* one iteration of the loop of _merge_sidecar_config (lines 144-146)
merge_field(app_config, merged, field) ==
    IF Has(app_config, field) /\ ~Has(merged, field)
    THEN With(merged, field, app_config[field])
    ELSE merged

\* variant of merge_sidecar_config: nothing is inherited from the app
merge_sidecar_config_own(app_config, sidecar_config) == sidecar_config

\* _merge_sidecar_config: merged starts as a copy of the sidecar's mapping
merge_sidecar_config(app_config, sidecar_config) ==
    LET RECURSIVE merge(_, _)
        merge(merged, fields) ==
            IF fields = <<>> THEN merged
            ELSE merge(merge_field(app_config, merged, Head(fields)), Tail(fields))
    IN  merge(sidecar_config, inheritable_fields)

(***************************************************************************)
(* volume_generator.py                                                     *)
(***************************************************************************)
\* a pod volume: its name and its source (configMap, hostPath or
\* persistentVolumeClaim) with the name, path or claimName the source holds
Volume(name, source, ref) == [name |-> name, source |-> source, ref |-> ref]

\* the name of the volume of entry idx of the container `name` (line 67)
volume_name(name, idx) == "vol-" \o name \o "-" \o ToString(idx)

\* _generate_container_volumes
generate_container_volumes(name, config) ==
    (IF Has(config, "volumesFrom")
     THEN Flatten([j \in 1..Len(config.volumesFrom) |->
            IF config.volumesFrom[j].hasConfig
            THEN <<Volume("config-" \o config.volumesFrom[j].name, "configMap",
                          "config-" \o config.volumesFrom[j].name)>>
            ELSE <<>>])
     ELSE <<>>)
    \o (IF Has(config, "volumes")
        THEN Flatten([j \in 1..Len(config.volumes) |->
               LET volume == config.volumes[j]
               IN  IF volume.t = "str" /\ Len(volume.parts) >= 2
                   THEN <<Volume(volume_name(name, j - 1),
                                 IF StartsWithSlash(volume.parts[1])
                                 THEN "hostPath" ELSE "persistentVolumeClaim",
                                 volume.parts[1])>>
                   ELSE <<>>])
        ELSE <<>>)

\* variant of inherit_volumes: the sidecar is left as it was declared
inherit_volumes_none(config, sidecar_config) == sidecar_config

\* lines 25-26 of generate_volumes: the sidecar's mapping itself is assigned
inherit_volumes(config, sidecar_config) ==
    IF Has(config, "volumes") /\ ~Has(sidecar_config, "volumes")
    THEN With(sidecar_config, "volumes", config.volumes)
    ELSE sidecar_config

\* variant of unique_volumes: no deduplication
unique_volumes_all(volumes) == volumes

\* lines 31-39 of generate_volumes: the first volume of each name is kept
unique_volumes(volumes) ==
    Flatten([j \in 1..Len(volumes) |->
        IF \E l \in 1..(j - 1) : volumes[l].name = volumes[j].name
        THEN <<>> ELSE <<volumes[j]>>])

\* generate_volumes: the volumes returned and the app mapping as the call
\* leaves it
generate_volumes(name, config) ==
    LET sidecars == [j \in 1..Len(config.sidecars) |->
                        inherit_volumes(config, config.sidecars[j])]
        volumes ==
            generate_container_volumes(name, config)
            \o Flatten([j \in 1..Len(sidecars) |->
                  generate_container_volumes(name \o "-" \o sidecars[j].name,
                                             sidecars[j])])
    IN  [volumes |-> unique_volumes(volumes),
         config |-> [config EXCEPT !.sidecars = sidecars]]

(***************************************************************************)
(* deployment_generator.py: generate                                       *)
(***************************************************************************)
\* DeploymentGenerator.generate: the manifests returned and the app mapping
\* as the call leaves it; a Deployment is recorded by its name, selector,
\* pod template labels, containers and volumes
DeploymentGenerator_generate(name, config, compose_config) ==
    LET main_container == create_container(name, config, config)
        containers ==
            <<main_container>>
            \o [j \in 1..Len(config.sidecars) |->
                  create_container(name \o "-" \o config.sidecars[j].name,
                      merge_sidecar_config(config, config.sidecars[j]), config)]
        generated == generate_volumes(name, config)
    IN  [deployments |-> <<[kind |-> "Deployment", name |-> name,
                            matchLabels |-> [app |-> name],
                            podLabels |-> [app |-> name],
                            containers |-> containers,
                            volumes |-> generated.volumes]>>,
         configmaps |-> inline_configmaps(compose_config.configs),
         config |-> generated.config]

generate_pvc(name) == [kind |-> "PersistentVolumeClaim", name |-> name]

(***************************************************************************)
(* kube_generator.py                                                       *)
(***************************************************************************)
AppSpec(name, ports, expose, sidecars) ==
    [name |-> name, ports |-> ports, expose |-> expose, sidecars |-> sidecars,
     keys |-> {}, volumes |-> <<>>, networks |-> <<>>, env_file |-> <<>>,
     volumesFrom |-> <<>>, envFrom |-> <<>>]
SidecarSpec(name, ports) ==
    [name |-> name, ports |-> ports, expose |-> <<>>,
     keys |-> {}, volumes |-> <<>>, networks |-> <<>>, env_file |-> <<>>,
     volumesFrom |-> <<>>, envFrom |-> <<>>]
SecretSpec(name, external) == [name |-> name, external |-> external]
ComposeModel(apps, configs, volumes) ==
    [apps |-> apps, configs |-> configs, volumes |-> volumes, secrets |-> <<>>]

\* the resources dict of generate_all in its literal key order (lines 35-41)
BundleKeys == <<"configmaps", "pvcs", "deployments", "services", "ingress">>

\* next((s for s in services if labels.component == 'main'), None)
service_for_ingress(services) ==
    LET mains == {j \in 1..Len(services) : services[j].labels.component = "main"}
    IN  IF mains = {} THEN None
        ELSE services[CHOOSE j \in mains : \A l \in mains : j <= l]

\* the ingress part of one iteration of the app loop (lines 70-74)
app_ingress(app, services) ==
    IF app.expose # <<>> /\ service_for_ingress(services) # None
    THEN LET ingress == IngressGenerator_generate(app.name, app)
         IN  IF ingress # None THEN <<ingress>> ELSE <<>>
    ELSE <<>>

\* one iteration of the loop over the apps (lines 49-74); res.apps collects
\* the app mappings as the iteration leaves them
generate_app(res, app, config) ==
    LET app_resources == DeploymentGenerator_generate(app.name, app, config)
        withDeployment ==
            [res EXCEPT !.deployments = @ \o app_resources.deployments,
                        !.configmaps = @ \o app_resources.configmaps,
                        !.apps = Append(@, app_resources.config)]
        generated == ServiceGenerator_generate(app.name, app)
    IN  IF res.raised THEN [res EXCEPT !.apps = Append(@, app)]
        ELSE IF ~needs_service(app) THEN withDeployment
        ELSE IF generated.raised
        THEN [res EXCEPT !.raised = TRUE, !.apps = Append(@, app_resources.config)]
        ELSE [withDeployment EXCEPT
                !.services = @ \o generated.services,
                !.ingress = @ \o app_ingress(app, generated.services)]

RECURSIVE generate_apps(_, _, _)
generate_apps(res, apps, config) ==
    IF apps = <<>> THEN res
    ELSE generate_apps(generate_app(res, Head(apps), config), Tail(apps), config)

\* the dict comprehension that drops the empty kinds (line 77)
drop_empty(res) ==
    LET RECURSIVE keep(_)
        keep(keys) ==
            IF keys = <<>> THEN <<>>
            ELSE (IF res[Head(keys)] # <<>>
                  THEN <<<<Head(keys), res[Head(keys)]>>>> ELSE <<>>)
                 \o keep(Tail(keys))
    IN  keep(BundleKeys)

\* generate_all: what it raised or returned, and the model as it leaves it
generate_all(config) ==
    LET res0 == [raised |-> FALSE, configmaps |-> <<>>,
                 pvcs |-> [j \in 1..Len(config.volumes) |->
                              generate_pvc(config.volumes[j])],
                 deployments |-> <<>>, services |-> <<>>, ingress |-> <<>>,
                 apps |-> <<>>]
        res == generate_apps(res0, config.apps, config)
    IN  [raised |-> res.raised,
         resources |-> IF res.raised THEN <<>> ELSE drop_empty(res),
         config |-> [config EXCEPT !.apps = res.apps]]

(***************************************************************************)
(* resource_manager.py: the bundle and the iteration over it               *)
(***************************************************************************)
Keys(res) == [j \in 1..Len(res) |-> res[j][1]]

\* resources[resource_type]
Lookup(res, key) ==
    LET js == {j \in 1..Len(res) : res[j][1] = key}
    IN  res[CHOOSE j \in js : TRUE][2]

\* variant of ApplyOrder: a fixed dependency order instead of the key order
ApplyOrder_fixed(res) ==
    SelectSeq(<<"configmaps", "pvcs", "services", "deployments", "ingress">>,
              LAMBDA t : \E j \in 1..Len(res) : res[j][1] = t)

\* apply_resources: for resource_type, resource_list in resources.items()
ApplyOrder(res) == Keys(res)

\* delete_resources: the literal resource_types list (line 171)
resource_types == <<"ingress", "deployments", "services", "configmaps", "pvcs">>

\* variant of DeleteOrder: the key order of the bundle
DeleteOrder_keys(res) == Keys(res)

\* delete_resources: the kinds of resource_types that are in resources
DeleteOrder(res) ==
    SelectSeq(resource_types, LAMBDA t : \E j \in 1..Len(res) : res[j][1] = t)

Order == IF op = "delete" THEN DeleteOrder(resources) ELSE ApplyOrder(resources)

resource_type == Order[k]
resource == Lookup(resources, resource_type)[i]
Target == <<resource_type, resource.name>>

\* the position after (kk, ii) in the nested loops over `order`, or <<0, 0>>
RECURSIVE NextPos(_, _, _, _)
NextPos(res, order, kk, ii) ==
    IF kk > Len(order) THEN <<0, 0>>
    ELSE IF ii < Len(Lookup(res, order[kk])) THEN <<kk, ii + 1>>
    ELSE NextPos(res, order, kk + 1, 0)

\* raise Exception(f"Failed to apply {resource_type} '{name}': ...")
\* raise Exception(f"Failed to delete {resource_type} '{name}': ...")
Wrapped(verb, rtype, name) == [verb |-> verb, resource_type |-> rtype, name |-> name]

Call(verb, res) ==
    [op |-> verb, resource_type |-> resource_type, name |-> resource.name,
     k |-> k, i |-> i, res |-> res]

\* what the cluster can answer to a read, patch or delete of a target
Answers(target) ==
    IF target \in cluster THEN {"ok", "error"} ELSE {"notfound", "error"}

\* what the cluster can answer to a create of a target
CreateAnswers(target) ==
    IF target \in cluster THEN {"error"} ELSE {"ok", "error", "notfound"}

\* variant of on_api_exception: every failure falls back to create
on_api_exception_swallow(res) == "create"

\* the inner handler of apply_resources: except ApiException as e:
\* if e.status == 404: create, else: raise
on_api_exception(res) == IF res = "notfound" THEN "create" ELSE "raise"

\* variant of on_delete_exception: not-found is raised like any other failure
on_delete_exception_strict(res) == "raise"

\* variant of on_delete_exception: every failure is swallowed
on_delete_exception_lenient(res) == "pass"

\* the handler of delete_resources: if e.status != 404: raise Exception(...)
on_delete_exception(res) == IF res # "notfound" THEN "raise" ELSE "pass"

\* the key orders in which a caller may hand the bundle over: as generated,
\* reversed, and with the first key moved to the end
Rotate(s) == IF s = <<>> THEN s ELSE Tail(s) \o <<Head(s)>>
Reverse(s) == [j \in 1..Len(s) |-> s[Len(s) + 1 - j]]
KeyOrders(res) == {res, Reverse(res), Rotate(res)}

(***************************************************************************)
(* parsers/validators.py                                                   *)
(***************************************************************************)
Passed == [ok |-> TRUE]
\* a ValueError: `error` is the fixed text of the message, the other fields
\* are the names the message is formatted with (sidecar "" when the message
\* has no sidecar prefix)
ValueError(error, app, sidecar, name) ==
    [ok |-> FALSE, error |-> error, app |-> app, sidecar |-> sidecar, name |-> name]

ConfigNames(configs) == {configs[j].name : j \in 1..Len(configs)}
ConfigNamed(configs, name) ==
    configs[CHOOSE j \in 1..Len(configs) : configs[j].name = name]

\* variant of validate_config_reference: an unknown config is let through
validate_config_reference_lenient(config_name, app_name, configs, external_configs, sidecar_name) ==
    IF config_name \notin ConfigNames(configs) THEN Passed
    ELSE IF /\ ConfigNamed(configs, config_name).external
            /\ config_name \notin external_configs
    THEN ValueError("config is marked as external but not found in external configs",
                    app_name, sidecar_name, config_name)
    ELSE Passed

\* _validate_config_reference
validate_config_reference(config_name, app_name, configs, external_configs, sidecar_name) ==
    IF config_name \notin ConfigNames(configs)
    THEN ValueError("config does not exist", app_name, sidecar_name, config_name)
    ELSE IF /\ ConfigNamed(configs, config_name).external
            /\ config_name \notin external_configs
    THEN ValueError("config is marked as external but not found in external configs",
                    app_name, sidecar_name, config_name)
    ELSE Passed

\* the loops over volumesFrom (lines 51-56, 77-88): the first raise ends them
RECURSIVE validate_volumes_from(_, _, _, _, _)
validate_volumes_from(volumes_from, app_name, configs, external_configs, sidecar_name) ==
    IF volumes_from = <<>> THEN Passed
    ELSE LET volume == Head(volumes_from)
             checked ==
                IF volume.hasConfig /\ volume.name # ""
                THEN validate_config_reference(volume.name, app_name, configs,
                                               external_configs, sidecar_name)
                ELSE Passed
         IN  IF ~checked.ok THEN checked
             ELSE validate_volumes_from(Tail(volumes_from), app_name, configs,
                                        external_configs, sidecar_name)

\* the loops over envFrom (lines 59-71, 91-109)
RECURSIVE validate_env_from(_, _, _, _, _, _)
validate_env_from(env_from, app_name, configs, external_configs, external_secrets, sidecar_name) ==
    IF env_from = <<>> THEN Passed
    ELSE LET env == Head(env_from)
             checked ==
                IF env.kind = "config"
                THEN IF env.name # ""
                     THEN validate_config_reference(env.name, app_name, configs,
                                                    external_configs, sidecar_name)
                     ELSE Passed
                ELSE IF env.kind = "secret"
                THEN IF env.name # "" /\ env.name \notin external_secrets
                     THEN ValueError("secret is not marked as external",
                                     app_name, sidecar_name, env.name)
                     ELSE Passed
                ELSE Passed
         IN  IF ~checked.ok THEN checked
             ELSE validate_env_from(Tail(env_from), app_name, configs,
                                    external_configs, external_secrets, sidecar_name)

\* the checks of one app or sidecar mapping: volumesFrom, then envFrom
validate_references(config, app_name, configs, external_configs, external_secrets, sidecar_name) ==
    LET checked == validate_volumes_from(Get(config, "volumesFrom"), app_name,
                                         configs, external_configs, sidecar_name)
    IN  IF ~checked.ok THEN checked
        ELSE validate_env_from(Get(config, "envFrom"), app_name, configs,
                               external_configs, external_secrets, sidecar_name)

\* the loop over the sidecars of one app (lines 74-109)
RECURSIVE validate_sidecars(_, _, _, _, _)
validate_sidecars(sidecars, app_name, configs, external_configs, external_secrets) ==
    IF sidecars = <<>> THEN Passed
    ELSE LET checked == validate_references(Head(sidecars), app_name, configs,
                            external_configs, external_secrets, Head(sidecars).name)
         IN  IF ~checked.ok THEN checked
             ELSE validate_sidecars(Tail(sidecars), app_name, configs,
                                    external_configs, external_secrets)

\* the loop over the apps (lines 49-109)
RECURSIVE validate_apps(_, _, _, _)
validate_apps(apps, configs, external_configs, external_secrets) ==
    IF apps = <<>> THEN Passed
    ELSE LET app == Head(apps)
             checked == validate_references(app, app.name, configs,
                            external_configs, external_secrets, "")
             nested == validate_sidecars(app.sidecars, app.name, configs,
                            external_configs, external_secrets)
         IN  IF ~checked.ok THEN checked
             ELSE IF ~nested.ok THEN nested
             ELSE validate_apps(Tail(apps), configs, external_configs, external_secrets)

\* ComposeValidator._validate_external_resources
validate_external_resources(compose_data, external_configs, external_secrets) ==
    validate_apps(compose_data.apps, compose_data.configs,
                  external_configs, external_secrets)

\* ComposeValidator.validate_compose: the models of this module conform to
\* the structural schema, so the call comes down to the referential checks
validate_compose(compose_data, external_configs, external_secrets) ==
    validate_external_resources(compose_data, external_configs, external_secrets)

\* what the cluster answers to the read of a target, given the targets whose
\* read fails with an error other than not-found
ReadAnswer(target, broken) ==
    IF target \in broken THEN "error"
    ELSE IF target \in cluster THEN "ok" ELSE "notfound"

\* _validate_configs / _validate_secrets: what a read that did not succeed
\* raises, a ValueError on not-found and the ApiException itself otherwise
read_failure(target, res) ==
    [ok |-> FALSE,
     error |-> IF res = "notfound" THEN "not found in namespace" ELSE "ApiException",
     kind |-> target[1], name |-> target[2]]

\* KubernetesResourceValidator.validate_external_resources: the reads it
\* makes one after the other, the config maps first, then the secrets, each
\* in the order its set yields the names
k8s_reads(configs, secrets) ==
    [j \in 1..Len(configs) |-> <<"configmaps", configs[j]>>]
    \o [j \in 1..Len(secrets) |-> <<"secrets", secrets[j]>>]

(***************************************************************************)
(* parsers/compose_parser.py                                               *)
(***************************************************************************)
get_external_configs(configs) ==
    {configs[j].name : j \in {l \in 1..Len(configs) : configs[l].external}}

get_external_secrets(secrets) ==
    {secrets[j].name : j \in {l \in 1..Len(secrets) : secrets[l].external}}

\* the config names of the volumesFrom entries of one app or sidecar mapping
volumes_from_configs(config) ==
    IF Has(config, "volumesFrom")
    THEN {config.volumesFrom[j].name :
            j \in {l \in 1..Len(config.volumesFrom) : config.volumesFrom[l].hasConfig}}
    ELSE {}

\* _get_referenced_configs
get_referenced_configs(apps) ==
    UNION {volumes_from_configs(apps[j])
           \cup UNION {volumes_from_configs(apps[j].sidecars[n]) :
                         n \in 1..Len(apps[j].sidecars)} :
           j \in 1..Len(apps)}

\* the sequence in which a loop meets the elements of a set of names, given
\* the order the interpreter's hashing puts all names in
Iterate(S, hash_order) ==
    Flatten([j \in 1..Len(hash_order) |->
        IF hash_order[j] \in S THEN <<hash_order[j]>> ELSE <<>>])

\* variant of checks_cluster: the skip flag is not consulted
checks_cluster_always(skip_k8s_check, client) == client

\* whether parse() runs the cluster check: core_v1 is a client only when the
\* flag is off and load_kube_config succeeded (lines 16-23), and line 56
\* tests `self.core_v1 and not self.skip_k8s_check`
checks_cluster(skip_k8s_check, client) ==
    LET core_v1 == ~skip_k8s_check /\ client
    IN  core_v1 /\ ~skip_k8s_check

\* the dict parse() returns (lines 59-64): the four mappings of the file
parsed_data(compose_data) ==
    [apps |-> compose_data.apps, volumes |-> compose_data.volumes,
     configs |-> compose_data.configs, secrets |-> compose_data.secrets]

\* what parse() returns once every read has succeeded, or with no read
parse_returned(compose_data, queried) ==
    [raised |-> FALSE, stage |-> "return", error |-> Passed,
     queried |-> queried, data |-> parsed_data(compose_data)]

\* what parse() raises out of the cluster check after the reads `queried`
parse_raised(failure, queried) ==
    [raised |-> TRUE, stage |-> "validate_external_resources",
     error |-> failure, queried |-> queried, data |-> None]

\* ComposeParser.parse up to its first cluster read, for a parser whose
\* cluster check is on or off: either it is done (validate_compose raised,
\* or it returned without a read), or the reads it goes on to make
parse(compose_data, check_cluster, hash_order) ==
    LET external_configs == get_external_configs(compose_data.configs)
        external_secrets == get_external_secrets(compose_data.secrets)
        referenced_configs == get_referenced_configs(compose_data.apps)
        validated == validate_compose(compose_data, external_configs, external_secrets)
        external_configs_to_validate == external_configs \cap referenced_configs
        reads == k8s_reads(Iterate(external_configs_to_validate, hash_order),
                           Iterate(external_secrets, hash_order))
    IN  IF ~validated.ok
        THEN [done |-> TRUE, pending |-> <<>>,
              result |-> [raised |-> TRUE, stage |-> "validate_compose",
                          error |-> validated, queried |-> <<>>, data |-> None]]
        ELSE IF ~check_cluster \/ reads = <<>>
        THEN [done |-> TRUE, pending |-> <<>>,
              result |-> parse_returned(compose_data, <<>>)]
        ELSE [done |-> FALSE, pending |-> reads, result |-> None]

(***************************************************************************)
(* Inputs.                                                                 *)
(***************************************************************************)
PortEntries ==
    { PortStr(<<Seg(8080), Seg(80)>>),              \* "8080:80"
      PortStr(<<Seg(8443), SegProto(443)>>),        \* "8443:443/tcp"
      PortStr(<<Seg(80)>>),                         \* "80"
      PortDict(TRUE, 9100, TRUE, 9100, FALSE, "") } \* {published: 9100, target: 9100}

\* one entry of each form the loop of IngressGenerator.generate tells apart
FormEntries ==
    { ExposeMap(<<Settings("example.com", FALSE, TRUE, 80, FALSE, "", FALSE, "")>>),
      ExposeMap(<<Settings("api.example.com", TRUE, FALSE, 0, TRUE, "/api", TRUE, "nginx")>>),
      ExposeMap(<<Scalar("bad.example.com")>>),     \* {host: "text"}
      ExposeUrl("https", "a.example.com", TRUE, "/app"),
      ExposeUrl("ftp", "f.example.com", FALSE, ""),
      ExposeOther }                                 \* 80 (an integer)

\* mapping entries that differ in the ingressClassName they name: none, two
\* different names, the empty string, and one mapping of two items that
\* name a class each
ClassEntries ==
    { ExposeMap(<<Settings("example.com", FALSE, TRUE, 80, FALSE, "", FALSE, "")>>),
      ExposeMap(<<Settings("api.example.com", TRUE, FALSE, 0, TRUE, "/api", TRUE, "nginx")>>),
      ExposeMap(<<Settings("b.example.com", FALSE, FALSE, 0, FALSE, "", TRUE, "haproxy")>>),
      ExposeMap(<<Settings("c.example.com", FALSE, FALSE, 0, FALSE, "", TRUE, "")>>),
      ExposeMap(<<Settings("d.example.com", FALSE, FALSE, 0, FALSE, "", TRUE, "haproxy"),
                  Settings("e.example.com", FALSE, FALSE, 0, FALSE, "", TRUE, "nginx")>>) }

ExposeEntries == FormEntries \cup ClassEntries

SidecarLists ==
    { <<>>,
      <<SidecarSpec("metrics", <<PortDict(TRUE, 9100, TRUE, 9100, FALSE, ""),
                                 PortStr(<<Seg(9100), Seg(9101)>>)>>)>>,
      <<SidecarSpec("lb", <<PortStr(<<Seg(9000), Seg(9000)>>), PortStr(<<Seg(9001)>>)>>)>>,
      <<SidecarSpec("log", <<PortOther>>)>> }      \* ports: [80] (an integer)

ConfigLists ==
    { <<>>, <<ConfigSpec("app", FALSE)>>,
      <<ConfigSpec("app", FALSE), ConfigSpec("shared", TRUE)>> }

VolumeLists == { <<>>, <<"data">> }

\* every ports list with every list of forms, and the lists over the class
\* entries with and without a port of the app
GenApps ==
    { AppSpec("web", ports, expose, sidecars) :
        ports \in SeqsUpTo(PortEntries, MaxPorts),
        expose \in SeqsUpTo(ExposeEntries \cap FormEntries, MaxExpose),
        sidecars \in SidecarLists }
    \cup { AppSpec("web", ports, expose, <<>>) :
             ports \in {<<>>, <<PortStr(<<Seg(8080), Seg(80)>>)>>},
             expose \in SeqsUpTo(ExposeEntries \cap ClassEntries, MaxExpose) }

SecondApps ==
    { AppSpec("api", <<PortStr(<<Seg(8080), Seg(80)>>)>>, <<>>, <<>>),
      AppSpec("api", <<PortStr(<<SegText, Seg(8080), Seg(80)>>)>>, <<>>, <<>>) }
      \* the second one declares ports: ["127.0.0.1:8080:80"]

GenModels ==
    { ComposeModel(apps, <<ConfigSpec("app", FALSE)>>, <<"data">>) :
        apps \in {<<a>> : a \in GenApps}
                 \cup {<<a, b>> : a \in {c \in GenApps : c.sidecars = <<>>},
                                  b \in SecondApps} }

Web ==
    AppSpec("web",
            <<PortStr(<<Seg(8080), Seg(80)>>), PortStr(<<Seg(8443), SegProto(443)>>)>>,
            <<ExposeMap(<<Settings("example.com", FALSE, TRUE, 80, FALSE, "", FALSE, "")>>)>>,
            <<>>)
Api == AppSpec("api", <<PortStr(<<Seg(8080), Seg(80)>>)>>, <<>>, <<>>)
Worker == AppSpec("worker", <<>>, <<>>, <<>>)

ReconcileModels ==
    { ComposeModel(apps, configs, volumes) :
        apps \in {<<Web>>, <<Api, Worker>>},
        configs \in {<<>>, <<ConfigSpec("app", FALSE), ConfigSpec("shared", TRUE)>>},
        volumes \in VolumeLists }

\* inputs of the Deployment and volume generation
VolumeEntries ==
    { VolumeStr(<<"/host/path", "/container/path">>),  \* "/host/path:/container/path"
      VolumeStr(<<"data", "/var/lib/data">>),         \* "data:/var/lib/data"
      VolumeStr(<<"cache", "/cache">>),               \* "cache:/cache"
      VolumeStr(<<"scratch">>) }                      \* "scratch"

AppVolumesFrom ==
    { <<VolumesFromConfig("app", FALSE, "", FALSE, "")>>,
      <<VolumesFromConfig("app", TRUE, "/etc/app", FALSE, ""), VolumesFromOther>> }

Metrics == SidecarSpec("metrics", <<>>)

DepSidecarLists ==
    { <<>>,
      <<Metrics>>,
      <<With(Metrics, "volumes", <<>>)>>,
      <<With(Metrics, "volumes", <<VolumeStr(<<"/srv", "/srv">>)>>)>>,
      <<With(With(Metrics, "volumesFrom",   \* [{config: {name: app, mountPath: /etc/metrics}}]
                  <<VolumesFromConfig("app", FALSE, "", TRUE, "/etc/metrics")>>),
             "networks", <<"monitoring">>)>>,
      <<With(With(Metrics, "volumes", <<VolumeStr(<<"logs", "/logs">>)>>),
             "envFrom", <<EnvFromConfig("app")>>)>>,
      <<Metrics, With([Metrics EXCEPT !.name = "logger"], "volumes",
                      <<VolumeStr(<<"/srv", "/srv">>)>>)>> }

\* the app without optional keys, with declared volumes, with volumesFrom,
\* with networks, env_file and envFrom
DepApps ==
    LET base == {AppSpec("web", <<>>, <<>>, sidecars) : sidecars \in DepSidecarLists}
        vols == base \cup {With(a, "volumes", v) :
                             a \in base, v \in SeqsUpTo(VolumeEntries, MaxVolumes)}
        from == vols \cup {With(a, "volumesFrom", v) : a \in vols, v \in AppVolumesFrom}
    IN  from \cup {With(With(With(a, "networks", <<"backend">>),
                             "env_file", <<".env">>),
                        "envFrom", <<EnvFromConfig("app")>>) : a \in from}

DepModels ==
    { ComposeModel(<<a>>, <<ConfigSpec("app", FALSE)>>, volumes) :
        a \in DepApps, volumes \in VolumeLists }

\* inputs of the validation and the parser
EnvFromEntries ==
    { EnvFromConfig("app"), EnvFromConfig("shared"), EnvFromConfig("missing"),
      EnvFromSecret("token"), EnvFromSecret("local") }

ParseVolumesFrom ==
    { <<VolumesFromConfig("shared", FALSE, "", FALSE, "")>>,
      <<VolumesFromConfig("app", FALSE, "", FALSE, ""),
        VolumesFromConfig("missing", FALSE, "", FALSE, "")>> }

ParseSidecarLists ==
    { <<>>,
      <<With(Metrics, "envFrom", <<EnvFromSecret("token")>>)>>,
      <<With(Metrics, "volumesFrom",
             <<VolumesFromConfig("shared", FALSE, "", FALSE, "")>>)>>,
      <<With(With(Metrics, "volumesFrom",
                  <<VolumesFromConfig("missing", FALSE, "", FALSE, "")>>),
             "envFrom", <<EnvFromSecret("local")>>)>> }

ParseApps ==
    LET base == {AppSpec("web", <<>>, <<>>, sidecars) : sidecars \in ParseSidecarLists}
        from == base \cup {With(a, "volumesFrom", v) : a \in base, v \in ParseVolumesFrom}
    IN  from \cup {With(a, "envFrom", e) :
                     a \in from, e \in SeqsUpTo(EnvFromEntries, MaxRefs)}

SecretLists == { <<>>, <<SecretSpec("token", TRUE), SecretSpec("local", FALSE)>> }

ParseModels ==
    { [ComposeModel(<<a>>, <<ConfigSpec("app", FALSE), ConfigSpec("shared", TRUE)>>,
                    <<>>) EXCEPT !.secrets = secrets] :
        a \in ParseApps, secrets \in SecretLists }

\* what exists in the cluster when the parser runs
ParseClusters ==
    SUBSET {<<"configmaps", "shared">>, <<"secrets", "token">>}

\* the external sets a caller hands to the validation: those the parser
\* computes from the model, or none
ExternalSets(names) == {names, {}}

\* the config maps and secrets a model flags as external
ExternalTargets(compose_data) ==
    {<<"configmaps", n>> : n \in get_external_configs(compose_data.configs)}
    \cup {<<"secrets", n>> : n \in get_external_secrets(compose_data.secrets)}

AtMostOne(S) == {{}} \cup {{e} : e \in S}

\* two orders in which the interpreter can iterate the sets of names
HashOrders(compose_data) ==
    LET names == [j \in 1..Len(compose_data.configs) |-> compose_data.configs[j].name]
                 \o [j \in 1..Len(compose_data.secrets) |-> compose_data.secrets[j].name]
    IN  {names, Reverse(names)}

(***************************************************************************)
(* The state machine.                                                      *)
(***************************************************************************)
InitIn(models, clusters) ==
    /\ model \in models
    /\ bundle = None
    /\ svcResult = None
    /\ depResult = None
    /\ volResult = None
    /\ regenerated = None
    /\ valResult = None
    /\ parseResult = None
    /\ parsing = None
    /\ resources = <<>>
    /\ cluster \in clusters
    /\ pc = "new"
    /\ op = "none"
    /\ k = 0
    /\ i = 0
    /\ phase = "none"
    /\ calls = <<>>
    /\ status = "none"
    /\ err = None
    /\ cluster0 = {}
    /\ meddled = FALSE
    /\ runs = 0
    /\ externals = 0

InitWith(models) == InitIn(models, {{}})

Init == InitWith(ReconcileModels)
InitGen == InitWith(GenModels)

\* KubeResourceGenerator(model, namespace).generate_all()
GenerateAll ==
    /\ pc = "new"
    /\ bundle = None
    /\ bundle' = generate_all(model)
    /\ model' = bundle'.config
    /\ pc' = IF bundle'.raised THEN "crashed" ELSE "idle"
    /\ UNCHANGED <<svcResult, depResult, valResult, parseResult, resources, cluster, op, k, i, phase, calls,
                   status, err, cluster0, meddled, runs, externals,
                   volResult, regenerated, parsing>>

\* ServiceGenerator(namespace).generate(name, config) on one app of the model
GenerateServices ==
    /\ pc = "new"
    /\ svcResult = None
    /\ \E j \in 1..Len(model.apps) :
          svcResult' = [app |-> model.apps[j],
                        result |-> ServiceGenerator_generate(model.apps[j].name,
                                                             model.apps[j])]
    /\ UNCHANGED <<model, bundle, depResult, valResult, parseResult, resources,
                   cluster, pc, op, k, i, phase, calls, status, err, cluster0,
                   meddled, runs, externals,
                   volResult, regenerated, parsing>>

\* DeploymentGenerator(namespace).generate(name, config, compose_config) on
\* one app of the model; `merged` records what _merge_sidecar_config returned
\* for each sidecar
GenerateDeployment ==
    /\ pc = "new"
    /\ depResult = None
    /\ \E j \in 1..Len(model.apps) :
          LET app == model.apps[j]
              result == DeploymentGenerator_generate(app.name, app, model)
          IN  /\ depResult' =
                    [app |-> app,
                     merged |-> [n \in 1..Len(app.sidecars) |->
                                    merge_sidecar_config(app, app.sidecars[n])],
                     result |-> [deployments |-> result.deployments,
                                 configmaps |-> result.configmaps]]
              /\ model' = [model EXCEPT !.apps[j] = result.config]
    /\ UNCHANGED <<bundle, svcResult, valResult, parseResult, resources, cluster,
                   pc, op, k, i, phase, calls, status, err, cluster0, meddled,
                   runs, externals,
                   volResult, regenerated, parsing>>

\* VolumeGenerator(namespace).generate_volumes(name, config) on one app of
\* the model
GenerateVolumes ==
    /\ pc = "new"
    /\ volResult = None
    /\ depResult = None
    /\ \E j \in 1..Len(model.apps) :
          LET app == model.apps[j]
              result == generate_volumes(app.name, app)
          IN  /\ volResult' = [app |-> app, volumes |-> result.volumes]
              /\ model' = [model EXCEPT !.apps[j] = result.config]
    /\ UNCHANGED <<bundle, svcResult, depResult, valResult, parseResult,
                   resources, cluster, pc, op, k, i, phase, calls, status, err,
                   cluster0, meddled, runs, externals, regenerated, parsing>>

\* generate_all() called once more on the generator whose first call returned
GenerateAllAgain ==
    /\ pc = "idle"
    /\ bundle # None
    /\ regenerated = None
    /\ resources = <<>>
    /\ LET again == generate_all(model)
       IN  /\ regenerated' = [raised |-> again.raised, resources |-> again.resources]
           /\ model' = again.config
    /\ UNCHANGED <<bundle, svcResult, depResult, volResult, valResult,
                   parseResult, resources, cluster, pc, op, k, i, phase, calls,
                   status, err, cluster0, meddled, runs, externals, parsing>>

\* ComposeValidator()._validate_external_resources(model, external_configs,
\* external_secrets)
ValidateExternalResources ==
    /\ pc = "new"
    /\ valResult = None
    /\ parseResult = None
    /\ parsing = None
    /\ \E external_configs \in ExternalSets(get_external_configs(model.configs)),
          external_secrets \in ExternalSets(get_external_secrets(model.secrets)) :
          valResult' =
            [external_configs |-> external_configs,
             external_secrets |-> external_secrets,
             result |-> validate_external_resources(model, external_configs,
                                                    external_secrets)]
    /\ UNCHANGED <<model, bundle, svcResult, depResult, parseResult, resources,
                   cluster, pc, op, k, i, phase, calls, status, err, cluster0,
                   meddled, runs, externals,
                   volResult, regenerated, parsing>>

\* ComposeParser(file, namespace, skip_k8s_check).parse() on the file the
\* model was loaded from, up to its first cluster read; client tells whether
\* load_kube_config succeeded, broken which read the API server fails
Parse ==
    /\ pc = "new"
    /\ parseResult = None
    /\ parsing = None
    /\ valResult = None
    /\ \E skip_k8s_check \in BOOLEAN, client \in BOOLEAN,
          hash_order \in HashOrders(model),
          broken \in AtMostOne(ExternalTargets(model)) :
          LET started == parse(model, checks_cluster(skip_k8s_check, client),
                               hash_order)
          IN  IF started.done
              THEN /\ parseResult' = [skip_k8s_check |-> skip_k8s_check,
                                      client |-> client, broken |-> broken,
                                      result |-> started.result]
                   /\ parsing' = None
              ELSE /\ parsing' = [skip_k8s_check |-> skip_k8s_check,
                                  client |-> client, broken |-> broken,
                                  pending |-> started.pending, queried |-> <<>>]
                   /\ parseResult' = None
    /\ UNCHANGED <<model, bundle, svcResult, depResult, valResult, resources,
                   cluster, pc, op, k, i, phase, calls, status, err, cluster0,
                   meddled, runs, externals, volResult, regenerated>>

\* one read_namespaced_config_map / read_namespaced_secret of the waiting
\* parse(): on success the loop goes on or parse() returns, otherwise the
\* exception leaves parse()
ParseRead ==
    /\ parsing # None
    /\ LET target == Head(parsing.pending)
           res == ReadAnswer(target, parsing.broken)
           queried == Append(parsing.queried, target)
           finished(result) ==
               /\ parseResult' = [skip_k8s_check |-> parsing.skip_k8s_check,
                                  client |-> parsing.client,
                                  broken |-> parsing.broken, result |-> result]
               /\ parsing' = None
       IN  IF res # "ok" THEN finished(parse_raised(read_failure(target, res), queried))
           ELSE IF Tail(parsing.pending) = <<>>
           THEN finished(parse_returned(model, queried))
           ELSE /\ parsing' = [parsing EXCEPT !.pending = Tail(@),
                                              !.queried = queried]
                /\ parseResult' = parseResult
    /\ UNCHANGED <<model, bundle, svcResult, depResult, valResult, resources,
                   cluster, pc, op, k, i, phase, calls, status, err, cluster0,
                   meddled, runs, externals, volResult, regenerated>>

\* another actor deletes a resource the waiting parse() has yet to read
ParseExternalDelete ==
    /\ parsing # None
    /\ externals < MaxExternal
    /\ \E j \in 1..Len(parsing.pending) :
          /\ parsing.pending[j] \in cluster
          /\ cluster' = cluster \ {parsing.pending[j]}
    /\ externals' = externals + 1
    /\ meddled' = TRUE
    /\ UNCHANGED <<model, bundle, svcResult, depResult, valResult, parseResult,
                   resources, pc, op, k, i, phase, calls, status, err, cluster0,
                   runs, volResult, regenerated, parsing>>

\* entering apply_resources(resources) or delete_resources(resources)
Start(operation, res) ==
    LET order == IF operation = "delete" THEN DeleteOrder(res) ELSE ApplyOrder(res)
        pos == NextPos(res, order, 1, 0)
    IN  /\ pc = "idle"
        /\ runs < MaxRuns
        /\ runs' = runs + 1
        /\ resources' = res
        /\ op' = operation
        /\ calls' = <<>>
        /\ err' = None
        /\ cluster0' = cluster
        /\ meddled' = FALSE
        /\ k' = pos[1]
        /\ i' = pos[2]
        /\ IF pos = <<0, 0>>
           THEN pc' = "idle" /\ status' = "ok" /\ phase' = "none"
           ELSE /\ pc' = operation
                /\ status' = "running"
                /\ phase' = IF operation = "delete" THEN "delete" ELSE "read"
        /\ UNCHANGED <<model, bundle, svcResult, depResult, valResult, parseResult, cluster, externals,
                   volResult, regenerated, parsing>>

StartApply ==
    /\ pc = "idle"
    /\ \E res \in KeyOrders(bundle.resources) : Start("apply", res)

StartDelete ==
    /\ pc = "idle"
    /\ \E res \in KeyOrders(bundle.resources) : Start("delete", res)

\* the loops move on to the next manifest, or the operation returns
Proceed ==
    LET pos == NextPos(resources, Order, k, i)
    IN  /\ k' = pos[1]
        /\ i' = pos[2]
        /\ err' = err
        /\ IF pos = <<0, 0>>
           THEN pc' = "idle" /\ status' = "ok" /\ phase' = "none"
           ELSE /\ pc' = pc
                /\ status' = status
                /\ phase' = IF op = "delete" THEN "delete" ELSE "read"

\* the wrapped exception leaves the operation
Raise ==
    /\ pc' = "idle"
    /\ status' = "failed"
    /\ err' = Wrapped(op, resource_type, resource.name)
    /\ phase' = "none"
    /\ UNCHANGED <<k, i>>

Stay(nextPhase) ==
    /\ phase' = nextPhase
    /\ UNCHANGED <<pc, k, i, status, err>>

\* the names the create commands of the CLI are given
ConfigMapNames == {"config-app"}
SecretNames == {"db-credentials"}

\* the ApiException of a create that nothing catches
Unwrapped(res) == [api_exception |-> res]

\* apply_config_map / apply_secret: one create_namespaced_* call, no read
\* before it, no patch, and no handler around it
CreateOne(operation, rtype, name) ==
    /\ pc = "idle"
    /\ runs < MaxRuns
    /\ runs' = runs + 1
    /\ op' = operation
    /\ resources' = <<>>
    /\ k' = 0
    /\ i' = 0
    /\ phase' = "none"
    /\ pc' = "idle"
    /\ cluster0' = cluster
    /\ meddled' = FALSE
    /\ \E res \in CreateAnswers(<<rtype, name>>) :
          /\ calls' = <<[op |-> "create", resource_type |-> rtype, name |-> name,
                         k |-> 0, i |-> 0, res |-> res]>>
          /\ IF res = "ok"
             THEN /\ cluster' = cluster \cup {<<rtype, name>>}
                  /\ status' = "ok"
                  /\ err' = None
             ELSE /\ cluster' = cluster
                  /\ status' = "failed"
                  /\ err' = Unwrapped(res)
    /\ UNCHANGED <<model, bundle, svcResult, depResult, valResult, parseResult,
                   externals, volResult, regenerated, parsing>>

\* ResourceManager(namespace).apply_config_map(name, data)
ApplyConfigMap ==
    \E name \in ConfigMapNames : CreateOne("apply_config_map", "configmaps", name)

\* ResourceManager(namespace).apply_secret(name, data)
ApplySecret ==
    \E name \in SecretNames : CreateOne("apply_secret", "secrets", name)

\* read_namespaced_*(name, namespace)
ApplyRead ==
    /\ pc = "apply"
    /\ phase = "read"
    /\ \E res \in Answers(Target) :
          /\ calls' = Append(calls, Call("read", res))
          /\ IF res = "ok" THEN Stay("patch")
             ELSE IF on_api_exception(res) = "create" THEN Stay("create")
             ELSE Raise
    /\ UNCHANGED <<model, bundle, svcResult, depResult, valResult, parseResult, resources, cluster, op, cluster0,
                   meddled, runs, externals,
                   volResult, regenerated, parsing>>

\* patch_namespaced_*(name, namespace, body, field_manager)
ApplyPatch ==
    /\ pc = "apply"
    /\ phase = "patch"
    /\ \E res \in Answers(Target) :
          /\ calls' = Append(calls, Call("patch", res))
          /\ IF res = "ok" THEN Proceed
             ELSE IF on_api_exception(res) = "create" THEN Stay("create")
             ELSE Raise
    /\ UNCHANGED <<model, bundle, svcResult, depResult, valResult, parseResult, resources, cluster, op, cluster0,
                   meddled, runs, externals,
                   volResult, regenerated, parsing>>

\* create_namespaced_*(namespace, body), called from the except clause
ApplyCreate ==
    /\ pc = "apply"
    /\ phase = "create"
    /\ \E res \in CreateAnswers(Target) :
          /\ calls' = Append(calls, Call("create", res))
          /\ IF res = "ok"
             THEN cluster' = cluster \cup {Target} /\ Proceed
             ELSE cluster' = cluster /\ Raise
    /\ UNCHANGED <<model, bundle, svcResult, depResult, valResult, parseResult, resources, op, cluster0,
                   meddled, runs, externals,
                   volResult, regenerated, parsing>>

\* delete_namespaced_*(name, namespace)
DeleteCall ==
    /\ pc = "delete"
    /\ phase = "delete"
    /\ \E res \in Answers(Target) :
          /\ calls' = Append(calls, Call("delete", res))
          /\ IF res = "ok"
             THEN cluster' = cluster \ {Target} /\ Proceed
             ELSE /\ cluster' = cluster
                  /\ IF on_delete_exception(res) = "raise" THEN Raise ELSE Proceed
    /\ UNCHANGED <<model, bundle, svcResult, depResult, valResult, parseResult, resources, op, cluster0,
                   meddled, runs, externals,
                   volResult, regenerated, parsing>>

\* another actor deletes the resource the running operation is working on
ExternalDelete ==
    /\ pc \in {"apply", "delete"}
    /\ externals < MaxExternal
    /\ Target \in cluster
    /\ cluster' = cluster \ {Target}
    /\ externals' = externals + 1
    /\ meddled' = TRUE
    /\ UNCHANGED <<model, bundle, svcResult, depResult, valResult, parseResult, resources, pc, op, k, i, phase,
                   calls, status, err, cluster0, runs,
                   volResult, regenerated, parsing>>

Next ==
    \/ GenerateAll
    \/ StartApply
    \/ StartDelete
    \/ ApplyRead
    \/ ApplyPatch
    \/ ApplyCreate
    \/ DeleteCall
    \/ ExternalDelete
    \/ ApplyConfigMap
    \/ ApplySecret

Spec == Init /\ [][Next]_vars

NextGen == GenerateAll \/ GenerateServices

SpecGen == InitGen /\ [][NextGen]_vars

InitDep == InitWith(DepModels)

NextDep ==
    \/ GenerateDeployment
    \/ GenerateVolumes
    \/ GenerateAll
    \/ GenerateAllAgain
    \/ ValidateExternalResources

SpecDep == InitDep /\ [][NextDep]_vars

InitParse == InitIn(ParseModels, ParseClusters)

NextParse ==
    \/ ValidateExternalResources
    \/ Parse
    \/ ParseRead
    \/ ParseExternalDelete

SpecParse == InitParse /\ [][NextParse]_vars

(***************************************************************************)
(* Vocabulary of the properties.                                           *)
(***************************************************************************)
\* a manifest of a bundle is identified by its kind key and list position
ManifestIds(res) ==
    UNION {{<<res[j][1], n>> : n \in 1..Len(res[j][2])} : j \in 1..Len(res)}

ManifestAt(res, id) == Lookup(res, id[1])[id[2]]
TargetOf(res, id) == <<id[1], ManifestAt(res, id).name>>

CallsOf(verb, id) ==
    {n \in 1..Len(calls) :
        calls[n].op = verb /\ calls[n].resource_type = id[1] /\ calls[n].i = id[2]}

KeyIndex(res, key) == CHOOSE j \in 1..Len(res) : res[j][1] = key

RankIn(order, key) == CHOOSE j \in 1..Len(order) : order[j] = key

ApplyReturned == op = "apply" /\ pc = "idle" /\ status = "ok"
ApplyRaised == op = "apply" /\ pc = "idle" /\ status = "failed"
DeleteReturned == op = "delete" /\ pc = "idle" /\ status = "ok"
DeleteRaised == op = "delete" /\ pc = "idle" /\ status = "failed"
FromGenerateAll == resources = bundle.resources

(***************************************************************************)
(* C1: applying a bundle from generate_all whose targets are all absent    *)
(* issues exactly one create per manifest; applying it when all targets    *)
(* are present issues exactly one patch per manifest and no create.        *)
(***************************************************************************)
C1_RoundTrip ==
    (ApplyReturned /\ FromGenerateAll /\ ~meddled) =>
        /\ (\A id \in ManifestIds(resources) : TargetOf(resources, id) \notin cluster0)
              => \A id \in ManifestIds(resources) :
                    Cardinality(CallsOf("create", id)) = 1
        /\ (\A id \in ManifestIds(resources) : TargetOf(resources, id) \in cluster0)
              => \A id \in ManifestIds(resources) :
                    /\ Cardinality(CallsOf("patch", id)) = 1
                    /\ CallsOf("create", id) = {}

(***************************************************************************)
(* C2: a read, patch or create that fails with an error other than         *)
(* not-found ends the apply with an error naming the kind and the name of  *)
(* that manifest; it is the last cluster call, no call concerns a later    *)
(* manifest, no call deletes, and what was applied before stays applied.   *)
(***************************************************************************)
C2_ApplyAborts ==
    (op = "apply") =>
        /\ \A n \in 1..Len(calls) :
              calls[n].res = "error" =>
                /\ n = Len(calls)
                /\ ApplyRaised
                /\ err = Wrapped("apply", calls[n].resource_type, calls[n].name)
                /\ \A m \in 1..n :
                      \/ KeyIndex(resources, calls[m].resource_type)
                            < KeyIndex(resources, calls[n].resource_type)
                      \/ /\ calls[m].resource_type = calls[n].resource_type
                         /\ calls[m].i <= calls[n].i
        /\ \A n \in 1..Len(calls) : calls[n].op \in {"read", "patch", "create"}
        /\ ~meddled =>
              /\ cluster0 \subseteq cluster
              /\ \A n \in 1..Len(calls) :
                    (calls[n].op \in {"patch", "create"} /\ calls[n].res = "ok")
                        => <<calls[n].resource_type, calls[n].name>> \in cluster

\* an apply failed after it had created a manifest and before it reached the last
C2_Witness ==
    /\ ApplyRaised
    /\ calls[Len(calls)].res = "error"
    /\ \E n \in 1..Len(calls) : calls[n].op = "create" /\ calls[n].res = "ok"
    /\ \E id \in ManifestIds(resources) :
          \A n \in 1..Len(calls) :
              ~(calls[n].resource_type = id[1] /\ calls[n].i = id[2])

(***************************************************************************)
(* C3: delete_resources issues its deletes kind by kind in the order       *)
(* ingress, deployments, services, configmaps, pvcs, whatever the key      *)
(* order of the bundle.                                                    *)
(***************************************************************************)
C3_Order == <<"ingress", "deployments", "services", "configmaps", "pvcs">>

C3_DeleteOrder ==
    (op = "delete") =>
        /\ \A m, n \in 1..Len(calls) :
              m < n => RankIn(C3_Order, calls[m].resource_type)
                         <= RankIn(C3_Order, calls[n].resource_type)
        /\ DeleteReturned =>
              \A id \in ManifestIds(resources) : CallsOf("delete", id) # {}

\* a delete of all five kinds returned, for a bundle keyed in generation order
C3_Witness ==
    /\ DeleteReturned
    /\ Keys(resources) = BundleKeys
    /\ \A key \in {"ingress", "deployments", "services", "configmaps", "pvcs"} :
          \E n \in 1..Len(calls) : calls[n].resource_type = key

(***************************************************************************)
(* C4: a not-found answer to a delete is swallowed: when no delete fails   *)
(* otherwise, delete_resources returns without error having issued         *)
(* exactly one delete for every manifest of the bundle.                    *)
(***************************************************************************)
C4_NotFoundSwallowed ==
    (/\ op = "delete"
     /\ pc = "idle"
     /\ \A n \in 1..Len(calls) : calls[n].res \in {"ok", "notfound"}) =>
        /\ status = "ok"
        /\ err = None
        /\ \A id \in ManifestIds(resources) :
              Cardinality(CallsOf("delete", id)) = 1

\* a delete returned although a delete before its last one answered not-found
C4_Witness ==
    /\ DeleteReturned
    /\ \E n \in 1..Len(calls) : n < Len(calls) /\ calls[n].res = "notfound"
    /\ \E n \in 1..Len(calls) : calls[n].res = "ok"

(***************************************************************************)
(* C5 as stated: a delete failure other than not-found is wrapped with     *)
(* kind and name and cuts off only the rest of its own kind: every         *)
(* manifest of the kinds later in the deletion order still gets its        *)
(* delete, and nothing deleted is re-created.                              *)
(***************************************************************************)
C5_OtherKindsNotCutOff ==
    DeleteRaised =>
        LET failed == calls[Len(calls)]
        IN  /\ err = Wrapped("delete", failed.resource_type, failed.name)
            /\ \A id \in ManifestIds(resources) :
                  RankIn(C3_Order, id[1]) > RankIn(C3_Order, failed.resource_type)
                      => Cardinality(CallsOf("delete", id)) = 1

(***************************************************************************)
(* C5 amended: a delete failure other than not-found is wrapped with kind  *)
(* and name and ends delete_resources: it is the last call, no manifest    *)
(* after it in the deletion order, of its kind or of a later kind, gets a  *)
(* delete; the deletes made before it are not undone.                      *)
(***************************************************************************)
C5_DeleteAborts ==
    (op = "delete") =>
        /\ \A n \in 1..Len(calls) :
              calls[n].res = "error" =>
                /\ n = Len(calls)
                /\ DeleteRaised
                /\ err = Wrapped("delete", calls[n].resource_type, calls[n].name)
                /\ \A id \in ManifestIds(resources) :
                      (\/ RankIn(C3_Order, id[1])
                            > RankIn(C3_Order, calls[n].resource_type)
                       \/ /\ id[1] = calls[n].resource_type
                          /\ id[2] > calls[n].i)
                          => CallsOf("delete", id) = {}
        /\ \A n \in 1..Len(calls) : calls[n].op = "delete"
        /\ \A n \in 1..Len(calls) :
              calls[n].res = "ok"
                  => <<calls[n].resource_type, calls[n].name>> \notin cluster

\* a delete failed after a successful delete, with a later kind left untouched
C5_Witness ==
    /\ DeleteRaised
    /\ \E n \in 1..Len(calls) : calls[n].res = "ok"
    /\ \E id \in ManifestIds(resources) :
          /\ RankIn(C3_Order, id[1])
                > RankIn(C3_Order, calls[Len(calls)].resource_type)
          /\ TargetOf(resources, id) \in cluster

(***************************************************************************)
(* C6: apply_resources goes through the kinds in the key order of the      *)
(* bundle it is given and through the manifests of a kind in list order;   *)
(* for a bundle from generate_all that order is configmaps, pvcs,          *)
(* deployments, services, ingress.                                         *)
(***************************************************************************)
C6_GenerateOrder == <<"configmaps", "pvcs", "deployments", "services", "ingress">>

C6_ApplyKeyOrder ==
    (op = "apply") =>
        /\ \A m, n \in 1..Len(calls) :
              m < n =>
                \/ KeyIndex(resources, calls[m].resource_type)
                      < KeyIndex(resources, calls[n].resource_type)
                \/ /\ calls[m].resource_type = calls[n].resource_type
                   /\ calls[m].i <= calls[n].i
        /\ ApplyReturned =>
              \A id \in ManifestIds(resources) :
                  CallsOf("patch", id) \cup CallsOf("create", id) # {}
        /\ FromGenerateAll =>
              \A m, n \in 1..Len(calls) :
                  m < n => RankIn(C6_GenerateOrder, calls[m].resource_type)
                             <= RankIn(C6_GenerateOrder, calls[n].resource_type)

\* an apply of a five-kind bundle returned, keyed otherwise than generated
C6_Witness ==
    /\ ApplyReturned
    /\ Len(resources) = 5
    /\ ~FromGenerateAll
    /\ calls[1].resource_type = "ingress"

(***************************************************************************)
(* C7: for a bundle from generate_all, apply_resources applies every       *)
(* Service before any Deployment, and every Ingress after both.            *)
(***************************************************************************)
C7_ServicesBeforeDeployments ==
    (op = "apply" /\ FromGenerateAll) =>
        \A m, n \in 1..Len(calls) :
            m < n =>
              /\ ~(calls[m].resource_type = "deployments"
                     /\ calls[n].resource_type = "services")
              /\ ~(calls[m].resource_type = "ingress"
                     /\ calls[n].resource_type \in {"deployments", "services"})

(***************************************************************************)
(* Vocabulary of the generation properties.                                *)
(***************************************************************************)
Generated == pc = "idle" /\ bundle # None /\ ~bundle.raised

BundleList(key) ==
    IF \E j \in 1..Len(bundle.resources) : bundle.resources[j][1] = key
    THEN Lookup(bundle.resources, key) ELSE <<>>

Named(services, name) == {j \in 1..Len(services) : services[j].name = name}

SamePort(p, q) == p.port = q.port /\ p.targetPort = q.targetPort

(***************************************************************************)
(* C8: for every app with non-empty ports, ServiceGenerator.generate       *)
(* yields the default Service named after the app with the first converted *)
(* port as its single port, and a Service '{app}-lb' iff two or more ports *)
(* were declared, which carries exactly the second converted port.         *)
(***************************************************************************)
C8_DefaultAndLbPorts ==
    (svcResult # None /\ svcResult.app.ports # <<>>) =>
        LET app == svcResult.app
            services == svcResult.result.services
            converted == convert_service_ports(app.ports)
        IN  /\ ~svcResult.result.raised
            /\ Cardinality(Named(services, app.name)) = 1
            /\ \A j \in Named(services, app.name) :
                  /\ Len(services[j].ports) = 1
                  /\ Len(converted) >= 1
                  /\ SamePort(services[j].ports[1], converted[1])
            /\ Named(services, app.name \o "-lb") # {} <=> Len(app.ports) >= 2
            /\ \A j \in Named(services, app.name \o "-lb") :
                  /\ Len(services[j].ports) = 1
                  /\ Len(converted) >= 2
                  /\ SamePort(services[j].ports[1], converted[2])

(***************************************************************************)
(* C9: for an app without sidecars, ServiceGenerator.generate returns      *)
(* exactly: ClusterIP '{app}' iff ports is non-empty, LoadBalancer         *)
(* '{app}-lb' iff ports has two or more entries, ClusterIP '{app}-ingress' *)
(* with the single port 80 to 80 iff expose is non-empty.                  *)
(***************************************************************************)
C9_Expected(app) ==
    (IF app.ports # <<>> THEN {<<app.name, "ClusterIP">>} ELSE {})
    \cup (IF Len(app.ports) >= 2 THEN {<<app.name \o "-lb", "LoadBalancer">>} ELSE {})
    \cup (IF app.expose # <<>> THEN {<<app.name \o "-ingress", "ClusterIP">>} ELSE {})

C9_ExactlyTheseServices ==
    (svcResult # None /\ svcResult.app.sidecars = <<>>) =>
        LET app == svcResult.app
            services == svcResult.result.services
        IN  /\ ~svcResult.result.raised
            /\ {<<services[j].name, services[j].type>> : j \in 1..Len(services)}
                  = C9_Expected(app)
            /\ Len(services) = Cardinality(C9_Expected(app))
            /\ \A j \in Named(services, app.name \o "-ingress") :
                  /\ Len(services[j].ports) = 1
                  /\ services[j].ports[1].port = 80
                  /\ services[j].ports[1].targetPort = 80

(***************************************************************************)
(* C10 as stated: for every app with non-empty expose, the bundle from     *)
(* generate_all contains an Ingress for the app iff it contains a Service  *)
(* for the app.                                                            *)
(***************************************************************************)
HasService(app) ==
    \E j \in 1..Len(BundleList("services")) :
        BundleList("services")[j].labels.app = app.name

HasIngress(app) ==
    \E j \in 1..Len(BundleList("ingress")) :
        BundleList("ingress")[j].name = app.name

C10_IngressIffService ==
    Generated =>
        \A j \in 1..Len(model.apps) :
            model.apps[j].expose # <<>> =>
                (HasIngress(model.apps[j]) <=> HasService(model.apps[j]))

(***************************************************************************)
(* C10 amended: for every app with non-empty expose, a bundle returned by  *)
(* generate_all contains a Service for the app, and it contains an Ingress *)
(* for the app iff some expose entry is accepted: an http:// or https://   *)
(* URL string, or a mapping with an item whose value is a mapping.         *)
(***************************************************************************)
C10_Accepted(expose) ==
    \/ expose.t = "str" /\ expose.scheme \in {"http", "https"}
    \/ expose.t = "dict" /\ \E n \in 1..Len(expose.items) : expose.items[n].isDict

C10_IngressIffAcceptedEntry ==
    Generated =>
        \A j \in 1..Len(model.apps) :
            LET app == model.apps[j]
            IN  app.expose # <<>> =>
                  /\ HasService(app)
                  /\ HasIngress(app) <=>
                        \E n \in 1..Len(app.expose) : C10_Accepted(app.expose[n])

\* a bundle with a Service and no Ingress for an app whose expose entries
\* are all skipped
C10_Witness ==
    /\ Generated
    /\ \E j \in 1..Len(model.apps) :
          /\ Len(model.apps[j].expose) >= 2
          /\ \A n \in 1..Len(model.apps[j].expose) :
                ~C10_Accepted(model.apps[j].expose[n])
          /\ HasService(model.apps[j])
          /\ ~HasIngress(model.apps[j])

\* the positions <<entry, item>> of the settings that name a class
C11_ClassPositions(expose) ==
    UNION {{<<n, m>> : m \in {l \in 1..Len(expose[n].items) :
                                /\ expose[n].items[l].isDict
                                /\ expose[n].items[l].hasClass}} :
           n \in {l \in 1..Len(expose) : expose[l].t = "dict"}}

C11_Later(p, q) == p[1] > q[1] \/ (p[1] = q[1] /\ p[2] >= q[2])

C11_LastClass(expose) ==
    IF C11_ClassPositions(expose) = {} THEN "traefik"
    ELSE LET last == CHOOSE p \in C11_ClassPositions(expose) :
                        \A q \in C11_ClassPositions(expose) : C11_Later(p, q)
         IN  expose[last[1]].items[last[2]].cls

(***************************************************************************)
(* C11 amended: the ingressClassName of a generated Ingress is the last    *)
(* ingressClassName the expose entries name, taken in list order and, in   *)
(* one mapping, in item order, and 'traefik' when no entry names one; when *)
(* the last one named is empty the Ingress has no ingressClassName field.  *)
(* It is a field of the Ingress and no rule carries a class of its own.    *)
(***************************************************************************)
C11_LastClassUnlessEmpty ==
    Generated =>
        \A j \in 1..Len(model.apps) :
            \A n \in 1..Len(BundleList("ingress")) :
                LET ingress == BundleList("ingress")[n]
                    last == C11_LastClass(model.apps[j].expose)
                IN  ingress.name = model.apps[j].name =>
                      /\ ingress.hasIngressClassName <=> last # ""
                      /\ ingress.hasIngressClassName => ingress.ingressClassName = last
                      /\ \A r \in 1..Len(ingress.rules) :
                            "ingressClassName" \notin DOMAIN ingress.rules[r]

(***************************************************************************)
(* C11 as stated: the ingressClassName of a generated Ingress is the last  *)
(* ingressClassName seen across the expose entries in list order, and      *)
(* 'traefik' when no entry specifies one; it is a field of the Ingress and *)
(* no rule carries a class of its own.                                     *)
(***************************************************************************)
C11_LastClassWins ==
    Generated =>
        \A j \in 1..Len(model.apps) :
            \A n \in 1..Len(BundleList("ingress")) :
                LET ingress == BundleList("ingress")[n]
                IN  ingress.name = model.apps[j].name =>
                      /\ ingress.hasIngressClassName
                      /\ ingress.ingressClassName = C11_LastClass(model.apps[j].expose)
                      /\ \A r \in 1..Len(ingress.rules) :
                            "ingressClassName" \notin DOMAIN ingress.rules[r]

\* an Ingress of two rules whose two entries name different classes, set to
\* the class of the second
C11_Witness ==
    /\ Generated
    /\ \E j \in 1..Len(model.apps) :
          LET expose == model.apps[j].expose
          IN  /\ Len(expose) = 2
              /\ C11_ClassPositions(expose) = {<<1, 1>>, <<2, 1>>}
              /\ expose[1].items[1].cls # expose[2].items[1].cls
              /\ expose[1].items[1].cls # ""
              /\ expose[2].items[1].cls # ""
              /\ \E n \in 1..Len(BundleList("ingress")) :
                    /\ BundleList("ingress")[n].name = model.apps[j].name
                    /\ Len(BundleList("ingress")[n].rules) = 2
                    /\ BundleList("ingress")[n].hasIngressClassName
                    /\ BundleList("ingress")[n].ingressClassName = expose[2].items[1].cls

(***************************************************************************)
(* C15: a malformed ports entry never aborts generation: for any ports     *)
(* list ServiceGenerator.generate and generate_all complete without        *)
(* raising, and the default Service is built from the first entry that     *)
(* converts whenever there is one.                                         *)
(***************************************************************************)
C15_MalformedPortsDropped ==
    /\ (bundle # None => ~bundle.raised)
    /\ svcResult # None =>
          LET app == svcResult.app
              services == svcResult.result.services
              converted == convert_service_ports(app.ports)
          IN  /\ ~svcResult.result.raised
              /\ converted # <<>> =>
                    \E j \in Named(services, app.name) :
                        SamePort(services[j].ports[1], converted[1])

(***************************************************************************)
(* C16: a generated Ingress has exactly one rule per accepted expose       *)
(* entry, in entry order, each with one path of pathType Prefix; an entry  *)
(* that is malformed or unrecognized contributes no rule, whatever entries *)
(* come before it.                                                         *)
(***************************************************************************)
\* the positions of the accepted entries, in list order
C16_AcceptedPositions(expose) ==
    {n \in 1..Len(expose) : C10_Accepted(expose[n])}

C16_OneRulePerAcceptedEntry ==
    Generated =>
        \A j \in 1..Len(model.apps) :
            \A n \in 1..Len(BundleList("ingress")) :
                LET ingress == BundleList("ingress")[n]
                    accepted == C16_AcceptedPositions(model.apps[j].expose)
                IN  ingress.name = model.apps[j].name =>
                      /\ Len(ingress.rules) = Cardinality(accepted)
                      /\ \A r \in 1..Len(ingress.rules) :
                            ingress.rules[r].pathType = "Prefix"

(***************************************************************************)
(* C17: in every Service produced for one app (default, -lb, -ingress,     *)
(* per-sidecar ClusterIP and per-sidecar -lb) the port names of the        *)
(* Service's port list are pairwise distinct.                              *)
(***************************************************************************)
C17_PortNamesDistinct ==
    (svcResult # None /\ ~svcResult.result.raised) =>
        \A j \in 1..Len(svcResult.result.services) :
            LET ports == svcResult.result.services[j].ports
            IN  \A a, b \in 1..Len(ports) :
                    ports[a].name = ports[b].name => a = b

\* sidecar Services with two ports that were converted to the same name
C17_Witness ==
    /\ svcResult # None
    /\ ~svcResult.result.raised
    /\ \E j \in 1..Len(svcResult.result.services) :
          LET service == svcResult.result.services[j]
          IN  /\ service.type = "LoadBalancer"
              /\ service.labels.component # "main"
              /\ Len(service.ports) = 2
              /\ service.ports[1].port = service.ports[2].port
    /\ \E j \in 1..Len(svcResult.app.sidecars) :
          LET converted == convert_service_ports(svcResult.app.sidecars[j].ports)
          IN  Len(converted) = 2 /\ converted[1].name = converted[2].name

(***************************************************************************)
(* Vocabulary of the Deployment properties.                                *)
(***************************************************************************)
\* the Deployments at hand: the one of the direct call, those of the bundle
Deployments ==
    (IF depResult # None THEN depResult.result.deployments ELSE <<>>)
    \o (IF bundle # None /\ ~bundle.raised THEN BundleList("deployments") ELSE <<>>)

WellFormed(volume) == volume.t = "str" /\ Len(volume.parts) >= 2

\* the positions of the well-formed entries of a volumes list
WellFormedAt(volumes) == {j \in 1..Len(volumes) : WellFormed(volumes[j])}

VolumesNamed(deployment, name) ==
    {v \in 1..Len(deployment.volumes) : deployment.volumes[v].name = name}

\* the sidecars of the app of the direct call that declare no volumes
Inheriting ==
    {n \in 1..Len(depResult.app.sidecars) : ~Has(depResult.app.sidecars[n], "volumes")}

(***************************************************************************)
(* C12: in every Deployment produced, every volumeMount name of every      *)
(* container, main or sidecar, is the name of a volume of that             *)
(* Deployment's pod volume list.                                           *)
(***************************************************************************)
C12_MountsHaveVolumes ==
    \A d \in 1..Len(Deployments) :
        \A c \in 1..Len(Deployments[d].containers) :
            \A m \in 1..Len(Deployments[d].containers[c].volumeMounts) :
                VolumesNamed(Deployments[d],
                    Deployments[d].containers[c].volumeMounts[m].name) # {}

\* a sidecar container with a mount inherited from volumes and one from
\* volumesFrom, next to a main container with mounts of both kinds
C12_Witness ==
    /\ depResult # None
    /\ Has(depResult.app, "volumes") /\ Has(depResult.app, "volumesFrom")
    /\ WellFormedAt(depResult.app.volumes) # {}
    /\ \E n \in Inheriting :
          /\ ~Has(depResult.app.sidecars[n], "volumesFrom")
          /\ Len(depResult.result.deployments[1].containers[n + 1].volumeMounts) >= 2
    /\ Len(depResult.result.deployments[1].containers[1].volumeMounts) >= 2

(***************************************************************************)
(* C13 as stated: for an app whose sidecar inherits the volumes list, the  *)
(* pod volume list holds a single volume per inherited entry, shared by    *)
(* the main container and the sidecar.                                     *)
(***************************************************************************)
\* the volumes of the Deployment made for entry j of the app's volumes: the
\* main container's and those of the inheriting sidecars
C13_VolumesOfEntry(j) ==
    LET app == depResult.app
        deployment == depResult.result.deployments[1]
    IN  VolumesNamed(deployment, "vol-" \o app.name \o "-" \o ToString(j - 1))
        \cup UNION {VolumesNamed(deployment,
                        "vol-" \o app.name \o "-" \o app.sidecars[n].name
                               \o "-" \o ToString(j - 1)) : n \in Inheriting}

C13_SingleVolumePerEntry ==
    (depResult # None /\ Has(depResult.app, "volumes") /\ Inheriting # {}) =>
        \A j \in WellFormedAt(depResult.app.volumes) :
            Cardinality(C13_VolumesOfEntry(j)) = 1

(***************************************************************************)
(* C13 amended: for an app whose sidecar inherits the volumes list, the    *)
(* pod volume list holds, per well-formed entry, one volume named          *)
(* vol-{app}-{i} and one named vol-{app}-{sidecar}-{i} for every           *)
(* inheriting sidecar, all with the entry's source; volumes are            *)
(* deduplicated by name only, so the names of the list are pairwise        *)
(* distinct.                                                               *)
(***************************************************************************)
C13_VolumePerOwner ==
    depResult # None =>
        LET app == depResult.app
            deployment == depResult.result.deployments[1]
        IN  /\ \A a, b \in 1..Len(deployment.volumes) :
                  deployment.volumes[a].name = deployment.volumes[b].name => a = b
            /\ Has(app, "volumes") =>
                  \A j \in WellFormedAt(app.volumes) :
                      /\ Cardinality(C13_VolumesOfEntry(j)) = 1 + Cardinality(Inheriting)
                      /\ \A v \in C13_VolumesOfEntry(j) :
                            deployment.volumes[v].ref = app.volumes[j].parts[1]

\* an inherited entry with its two volumes, and a config volume that the
\* app and the sidecar both reference
C13_Witness ==
    /\ depResult # None
    /\ Has(depResult.app, "volumes")
    /\ Has(depResult.app, "volumesFrom")
    /\ \E n \in Inheriting :
          /\ Has(depResult.app.sidecars[n], "volumesFrom")
          /\ \E j \in WellFormedAt(depResult.app.volumes) :
                Cardinality(C13_VolumesOfEntry(j)) = 2
    /\ Cardinality(VolumesNamed(depResult.result.deployments[1], "config-app")) = 1

(***************************************************************************)
(* C14: a sidecar that declares no volumes has, for each app entry         *)
(* 'src:dst', a mount at dst backed by a pod volume with source src        *)
(* (hostPath when src starts with '/'); a sidecar that declares volumes    *)
(* has the mounts of its own entries only; volumes, networks, env_file and *)
(* volumesFrom are taken from the app when the sidecar lacks the key and   *)
(* from the sidecar otherwise, and no other key is inherited.              *)
(***************************************************************************)
\* the mount paths of the well-formed entries of a volumes list, in order
C14_MountPathsOf(volumes) ==
    Flatten([j \in 1..Len(volumes) |->
        IF WellFormed(volumes[j]) THEN <<volumes[j].parts[2]>> ELSE <<>>])

\* the number of mounts a volumesFrom list yields
C14_ConfigMounts(volumes_from) ==
    Cardinality({j \in 1..Len(volumes_from) : volumes_from[j].hasConfig})

C14_Backed(deployment, container, entry) ==
    \E m \in 1..Len(container.volumeMounts) :
        /\ container.volumeMounts[m].mountPath = entry.parts[2]
        /\ \E v \in VolumesNamed(deployment, container.volumeMounts[m].name) :
              /\ deployment.volumes[v].ref = entry.parts[1]
              /\ deployment.volumes[v].source =
                    IF StartsWithSlash(entry.parts[1])
                    THEN "hostPath" ELSE "persistentVolumeClaim"

C14_SidecarInheritance ==
    depResult # None =>
        \A n \in 1..Len(depResult.app.sidecars) :
            LET app == depResult.app
                sidecar == app.sidecars[n]
                merged == depResult.merged[n]
                deployment == depResult.result.deployments[1]
                container == deployment.containers[n + 1]
                own == IF Has(sidecar, "volumes") THEN sidecar.volumes
                       ELSE Get(app, "volumes")
                from == IF Has(sidecar, "volumesFrom") THEN sidecar.volumesFrom
                        ELSE Get(app, "volumesFrom")
                paths == [m \in 1..Len(container.volumeMounts) |->
                             container.volumeMounts[m].mountPath]
            IN  /\ \A j \in WellFormedAt(own) : C14_Backed(deployment, container, own[j])
                /\ Len(paths) = Len(C14_MountPathsOf(own)) + C14_ConfigMounts(from)
                /\ SubSeq(paths, 1, Len(C14_MountPathsOf(own))) = C14_MountPathsOf(own)
                /\ \A f \in {"volumes", "networks", "env_file", "volumesFrom"} :
                      /\ Has(merged, f) <=> (Has(sidecar, f) \/ Has(app, f))
                      /\ Has(merged, f) =>
                            merged[f] = IF Has(sidecar, f) THEN sidecar[f] ELSE app[f]
                /\ Has(merged, "envFrom") <=> Has(sidecar, "envFrom")
                /\ merged.envFrom = sidecar.envFrom
                /\ merged.ports = sidecar.ports
                /\ merged.name = sidecar.name
                /\ container.hasEnvFrom <=> Has(sidecar, "envFrom")

\* a sidecar without volumes and envFrom under an app that has volumes,
\* networks and envFrom: the host path is mounted in the sidecar's container
C14_Witness ==
    /\ depResult # None
    /\ Has(depResult.app, "volumes") /\ Has(depResult.app, "envFrom")
    /\ Has(depResult.app, "networks")
    /\ \E j \in WellFormedAt(depResult.app.volumes) :
          /\ depResult.app.volumes[j].parts = <<"/host/path", "/container/path">>
          /\ \E n \in Inheriting :
                /\ ~Has(depResult.app.sidecars[n], "envFrom")
                /\ C14_Backed(depResult.result.deployments[1],
                              depResult.result.deployments[1].containers[n + 1],
                              depResult.app.volumes[j])
    /\ \E n \in 1..Len(depResult.app.sidecars) :
          /\ Has(depResult.app.sidecars[n], "volumes")
          /\ Len(depResult.result.deployments[1].containers[n + 1].volumeMounts) = 1

(***************************************************************************)
(* C19: for every model that passes validation, each persistentVolumeClaim *)
(* claimName of a generated Deployment is the name of a PVC manifest of    *)
(* the same bundle.                                                        *)
(***************************************************************************)
\* the referential validation passed, called with the sets the parser takes
\* from the model
PassedValidation ==
    /\ valResult # None
    /\ valResult.external_configs = get_external_configs(model.configs)
    /\ valResult.external_secrets = get_external_secrets(model.secrets)
    /\ valResult.result.ok

C19_ClaimsHavePvcs ==
    (PassedValidation /\ Generated) =>
        \A d \in 1..Len(BundleList("deployments")) :
            \A v \in 1..Len(BundleList("deployments")[d].volumes) :
                LET volume == BundleList("deployments")[d].volumes[v]
                IN  volume.source = "persistentVolumeClaim" =>
                        \E n \in 1..Len(BundleList("pvcs")) :
                            BundleList("pvcs")[n].name = volume.ref

(***************************************************************************)
(* Vocabulary of the validation properties.                                *)
(***************************************************************************)
Reference(app, sidecar, kind, name) ==
    [app |-> app, sidecar |-> sidecar, kind |-> kind, name |-> name]

\* the references of one app or sidecar mapping: volumesFrom, then envFrom
RefsVolumesFrom(config, app, sidecar) ==
    LET from == Get(config, "volumesFrom")
    IN  Flatten([j \in 1..Len(from) |->
            IF from[j].hasConfig
            THEN <<Reference(app, sidecar, "config", from[j].name)>> ELSE <<>>])

RefsEnvFrom(config, app, sidecar) ==
    LET from == Get(config, "envFrom")
    IN  Flatten([j \in 1..Len(from) |->
            IF from[j].kind \in {"config", "secret"}
            THEN <<Reference(app, sidecar, from[j].kind, from[j].name)>> ELSE <<>>])

\* every reference of the model, in the order app, then its sidecars
References(compose_data) ==
    Flatten([j \in 1..Len(compose_data.apps) |->
        LET app == compose_data.apps[j]
        IN  RefsVolumesFrom(app, app.name, "") \o RefsEnvFrom(app, app.name, "")
            \o Flatten([n \in 1..Len(app.sidecars) |->
                  RefsVolumesFrom(app.sidecars[n], app.name, app.sidecars[n].name)
                  \o RefsEnvFrom(app.sidecars[n], app.name, app.sidecars[n].name)])])

\* a config that is no key of configs, or a secret outside the external set
Dangling(ref, compose_data, external_secrets) ==
    \/ ref.kind = "config" /\ ref.name \notin ConfigNames(compose_data.configs)
    \/ ref.kind = "secret" /\ ref.name \notin external_secrets

\* an external config the caller did not list as external
Inconsistent(ref, compose_data, external_configs) ==
    /\ ref.kind = "config"
    /\ ref.name \in get_external_configs(compose_data.configs)
    /\ ref.name \notin external_configs

(***************************************************************************)
(* C18: referential validation succeeds only if every config referenced    *)
(* via volumesFrom or envFrom, by an app or a sidecar, is a key of configs *)
(* and every secret referenced via envFrom is in the external-secrets set; *)
(* otherwise it fails, and a failure names the app, the sidecar if any and *)
(* the name of the first violation in the order of the references.         *)
(***************************************************************************)
C18_Violations ==
    {j \in 1..Len(References(model)) :
        \/ Dangling(References(model)[j], model, valResult.external_secrets)
        \/ Inconsistent(References(model)[j], model, valResult.external_configs)}

C18_ReferentialValidation ==
    valResult # None =>
        LET refs == References(model)
            result == valResult.result
        IN  /\ result.ok =>
                  \A j \in 1..Len(refs) :
                      ~Dangling(refs[j], model, valResult.external_secrets)
            /\ (\E j \in 1..Len(refs) :
                    Dangling(refs[j], model, valResult.external_secrets)) => ~result.ok
            /\ ~result.ok =>
                  /\ C18_Violations # {}
                  /\ LET first == refs[CHOOSE j \in C18_Violations :
                                          \A l \in C18_Violations : j <= l]
                     IN  /\ result.app = first.app
                         /\ result.sidecar = first.sidecar
                         /\ result.name = first.name

\* a failure that names the sidecar: the app's own references are sound and
\* the sidecar has two violations, of which the first is reported
C18_Witness ==
    /\ valResult # None
    /\ ~valResult.result.ok
    /\ valResult.result.sidecar = "metrics"
    /\ valResult.result.error = "config does not exist"
    /\ Cardinality(C18_Violations) >= 2
    /\ \E j \in 1..Len(References(model)) :
          /\ j \notin C18_Violations
          /\ References(model)[j].kind = "secret"

(***************************************************************************)
(* C20: when the cluster check is not skipped and a client is available,   *)
(* the names the parser reads from the cluster are exactly the external    *)
(* configs and secrets that some app or sidecar references through         *)
(* volumesFrom or envFrom: none else is read, and a referenced external    *)
(* resource that is missing from the cluster makes parsing fail.           *)
(***************************************************************************)
C20_ReferencedExternals ==
    {<<"configmaps", References(model)[j].name>> :
        j \in {l \in 1..Len(References(model)) :
                 /\ References(model)[l].kind = "config"
                 /\ References(model)[l].name \in get_external_configs(model.configs)}}
    \cup {<<"secrets", References(model)[j].name>> :
            j \in {l \in 1..Len(References(model)) :
                     /\ References(model)[l].kind = "secret"
                     /\ References(model)[l].name \in get_external_secrets(model.secrets)}}

C20_ReadsReferencedExternals ==
    (/\ parseResult # None
     /\ parseResult.client /\ ~parseResult.skip_k8s_check
     /\ parseResult.broken = {}
     /\ ~meddled
     /\ parseResult.result.stage # "validate_compose") =>
        LET queried == {parseResult.result.queried[j] :
                          j \in 1..Len(parseResult.result.queried)}
        IN  /\ queried \subseteq C20_ReferencedExternals
            /\ ~parseResult.result.raised => queried = C20_ReferencedExternals
            /\ (C20_ReferencedExternals \ cluster # {}) => parseResult.result.raised

(***************************************************************************)
(* C21: with the skip flag set the parser issues no cluster read, and on   *)
(* every model on which the parse without the flag succeeds, the parse     *)
(* with the flag succeeds too, returns the same model, and generate_all    *)
(* yields the same bundle from either.                                     *)
(***************************************************************************)
C21_SkipIsTransparent ==
    parseResult # None =>
        /\ parseResult.skip_k8s_check => parseResult.result.queried = <<>>
        /\ (~parseResult.skip_k8s_check /\ ~parseResult.result.raised) =>
              \A hash_order \in HashOrders(model) :
                 LET started == parse(model, checks_cluster(TRUE, parseResult.client),
                                      hash_order)
                     skipped == started.result
                 IN  /\ started.done
                     /\ ~skipped.raised
                     /\ skipped.queried = <<>>
                     /\ skipped.data = parseResult.result.data
                     /\ generate_all(skipped.data).raised
                            = generate_all(parseResult.result.data).raised
                     /\ generate_all(skipped.data).resources
                            = generate_all(parseResult.result.data).resources

\* a parse without the flag that read a config map and a secret from the
\* cluster and returned the model
C21_Witness ==
    /\ parseResult # None
    /\ ~parseResult.skip_k8s_check /\ parseResult.client
    /\ ~parseResult.result.raised
    /\ Len(parseResult.result.queried) = 2
    /\ parseResult.result.data = model

(***************************************************************************)
(* C22: the bundle of generate_all holds exactly one ConfigMap per         *)
(* non-external entry of the top-level configs, named 'config-{name}' and  *)
(* carrying the entry's data, and no other ConfigMap, however many apps    *)
(* the model has.                                                          *)
(***************************************************************************)
C22_OneConfigMapPerInlineConfig ==
    (bundle # None /\ ~bundle.raised) =>
        LET maps == BundleList("configmaps")
            inline == {j \in 1..Len(model.configs) : ~model.configs[j].external}
        IN  /\ \A j \in inline :
                  LET ms == Named(maps, "config-" \o model.configs[j].name)
                  IN  /\ Cardinality(ms) = 1
                      /\ \A m \in ms : /\ maps[m].kind = "ConfigMap"
                                        /\ maps[m].data = model.configs[j].data
            /\ \A m \in 1..Len(maps) :
                  \E j \in inline : maps[m].name = "config-" \o model.configs[j].name

(***************************************************************************)
(* C23: generation leaves the model unchanged: no call of                  *)
(* DeploymentGenerator.generate, VolumeGenerator.generate_volumes or       *)
(* generate_all adds, removes or changes a key of an app or of a sidecar.  *)
(***************************************************************************)
C23_ModelUnchanged == [][model' = model]_vars

(***************************************************************************)
(* C24: every volumesFrom entry {config: {name, mountPath?}} of the app or *)
(* of a sidecar yields, in the container of its owner, a mount named       *)
(* 'config-{name}' at the entry's mountPath when it gives one and at       *)
(* '/config/{name}' when it gives none.                                    *)
(***************************************************************************)
\* the mount the container owes to one volumesFrom entry
C24_Mounted(container, entry) ==
    \E m \in 1..Len(container.volumeMounts) :
        /\ container.volumeMounts[m].name = "config-" \o entry.name
        /\ container.volumeMounts[m].mountPath =
              IF entry.hasInnerMountPath THEN entry.innerMountPath
              ELSE "/config/" \o entry.name

\* the entries of the shape {config: {name, mountPath?}} of a mapping
C24_Entries(config) ==
    {j \in 1..Len(Get(config, "volumesFrom")) :
        /\ config.volumesFrom[j].hasConfig
        /\ ~config.volumesFrom[j].hasMountPath}

C24_VolumesFromMountPath ==
    depResult # None =>
        LET app == depResult.app
            containers == depResult.result.deployments[1].containers
        IN  /\ \A j \in C24_Entries(app) :
                  C24_Mounted(containers[1], app.volumesFrom[j])
            /\ \A n \in 1..Len(app.sidecars) :
                  \A j \in C24_Entries(app.sidecars[n]) :
                      C24_Mounted(containers[n + 1], app.sidecars[n].volumesFrom[j])

(***************************************************************************)
(* C25: for every sidecar with non-empty ports, of any app, the bundle of  *)
(* generate_all holds a ClusterIP Service '{app}-{sidecar}' that exposes   *)
(* all converted ports of the sidecar, also when the app itself has        *)
(* neither ports nor expose.                                               *)
(***************************************************************************)
C25_ExposesAll(service, ports) ==
    /\ service.type = "ClusterIP"
    /\ Len(service.ports) = Len(convert_service_ports(ports))
    /\ \A j \in 1..Len(service.ports) :
          SamePort(service.ports[j], convert_service_ports(ports)[j])

C25_SidecarServices ==
    Generated =>
        \A a \in 1..Len(model.apps) :
            \A n \in 1..Len(model.apps[a].sidecars) :
                LET sidecar == model.apps[a].sidecars[n]
                    services == BundleList("services")
                IN  sidecar.ports # <<>> =>
                        \E j \in Named(services,
                                       model.apps[a].name \o "-" \o sidecar.name) :
                            C25_ExposesAll(services[j], sidecar.ports)

(***************************************************************************)
(* C26: in every bundle of generate_all, the backend of each Ingress rule  *)
(* names a Service manifest of the bundle, and the backend port number is  *)
(* a port of that Service.                                                 *)
(***************************************************************************)
C26_BackendsExist ==
    Generated =>
        \A g \in 1..Len(BundleList("ingress")) :
            \A r \in 1..Len(BundleList("ingress")[g].rules) :
                LET rule == BundleList("ingress")[g].rules[r]
                    services == BundleList("services")
                IN  \E j \in Named(services, rule.service) :
                        \E q \in 1..Len(services[j].ports) :
                            services[j].ports[q].port = rule.number

(***************************************************************************)
(* C27: in every bundle of generate_all, each pair of the selector of a    *)
(* Service of the main app (default, -lb, -ingress) is a label of the pod  *)
(* template of the Deployment of that app.                                 *)
(***************************************************************************)
C27_SelectorsMatchPods ==
    Generated =>
        \A j \in 1..Len(BundleList("services")) :
            LET service == BundleList("services")[j]
                deployments == BundleList("deployments")
            IN  service.labels.component = "main" =>
                    \E d \in Named(deployments, service.labels.app) :
                        \A key \in DOMAIN service.selector :
                            /\ key \in DOMAIN deployments[d].podLabels
                            /\ deployments[d].podLabels[key] = service.selector[key]

(***************************************************************************)
(* C28: in every bundle of generate_all from a model with distinct app     *)
(* names and, within each app, distinct sidecar names, no two Service      *)
(* manifests have the same name.                                           *)
(***************************************************************************)
C28_DistinctNames(specs) ==
    \A j, l \in 1..Len(specs) : specs[j].name = specs[l].name => j = l

C28_ServiceNamesDistinct ==
    (/\ Generated
     /\ C28_DistinctNames(model.apps)
     /\ \A a \in 1..Len(model.apps) : C28_DistinctNames(model.apps[a].sidecars)) =>
        C28_DistinctNames(BundleList("services"))

(***************************************************************************)
(* C29: for each manifest apply_resources processes, patch and create are  *)
(* never both called, and create is called only after the read of that     *)
(* manifest answered not-found, also when another actor deletes the        *)
(* resource between the read and the patch.                                *)
(***************************************************************************)
C29_PatchOrCreate ==
    op = "apply" =>
        \A id \in ManifestIds(resources) :
            /\ CallsOf("patch", id) = {} \/ CallsOf("create", id) = {}
            /\ \A c \in CallsOf("create", id) :
                  \E r \in CallsOf("read", id) :
                      r < c /\ calls[r].res = "notfound"

(***************************************************************************)
(* C30: a second generate_all call on the same model object returns a      *)
(* bundle equal to the first (same kinds, same manifests, same order),     *)
(* also when sidecars inherit the volumes of their app.                    *)
(***************************************************************************)
C30_Repeatable ==
    regenerated # None =>
        /\ regenerated.raised = bundle.raised
        /\ regenerated.resources = bundle.resources

\* two calls on a model whose sidecar took over the well-formed volumes of
\* its app, which the Deployment holds under the sidecar's name
C30_Witness ==
    /\ regenerated # None
    /\ ~regenerated.raised
    /\ \E a \in 1..Len(model.apps) :
          /\ Has(model.apps[a], "volumes")
          /\ WellFormedAt(model.apps[a].volumes) # {}
          /\ \E n \in 1..Len(model.apps[a].sidecars) :
                LET sidecar == model.apps[a].sidecars[n]
                    first == Lookup(bundle.resources, "deployments")[a]
                    second == Lookup(regenerated.resources, "deployments")[a]
                IN  /\ sidecar.volumes = model.apps[a].volumes
                    /\ \E j \in WellFormedAt(sidecar.volumes) :
                          /\ VolumesNamed(first,
                                volume_name(model.apps[a].name \o "-" \o sidecar.name,
                                            j - 1)) # {}
                          /\ VolumesNamed(second,
                                volume_name(model.apps[a].name \o "-" \o sidecar.name,
                                            j - 1)) # {}

====
